---- MODULE Spec2Model ----
(***************************************************************************)
(* Model of the azure-iothub-service client library: the Edge deployment   *)
(* manifest builders (configuration/modulescontent.rs), their serde wire   *)
(* format, the credential construction of IoTHubService (iothub.rs), the   *)
(* twin patch builder (twin.rs), the requests of the facade and what each   *)
(* operation returns for a reply (twin.rs, directmethod.rs, query.rs).     *)
(*                                                                         *)
(* The specifications share the variables:                                *)
(*   SpecModule   - EdgeModuleBuilder: setters, then build                 *)
(*   Spec         - ModulesContentBuilder: setters, build, serialize,      *)
(*                  deserialize of the two section bodies                  *)
(*   SpecManifest - a built ModulesContent edited through the *_mut        *)
(*                  accessors, serialized and deserialized                 *)
(*   SpecConn     - IoTHubService::from_connection_string on bounded       *)
(*                  connection strings                                     *)
(*   SpecSign     - from_private_key and from_connection_string down to    *)
(*                  the SAS token they sign                                *)
(*   SpecTwin     - DesiredTwinBuilder: setters, then build                *)
(*   SpecFacade   - a constructed IoTHubService, its handles and the HTTP  *)
(*                  requests they issue while the clock advances           *)
(*   SpecQuery    - QueryBuilder: the four setters in any order, build     *)
(*   SpecError    - the custom Deserialize of IoTHubError and              *)
(*                  DirectMethodError on bounded response bodies           *)
(*   SpecExchange - one operation of the facade and every kind of reply    *)
(*                  the service can give to it                             *)
(*   SpecConcurrent - operations of one service suspended at the request   *)
(*                  and resumed in any order                               *)
(* Rust values are modelled as follows: Option<T> as None / Some(v),       *)
(* Result<T,E> as Ok(v) / Err(e), HashMap<String,T> as a function whose    *)
(* DOMAIN is the key set, String as a TLA+ string where only equality      *)
(* matters and as a sequence of one-character strings where the code       *)
(* searches and slices it (the connection string).                         *)
(***************************************************************************)
EXTENDS FiniteSets, Integers, Sequences, TLC

VARIABLES
    mb,        \* EdgeModuleBuilder under construction
    mres,      \* Option<Result<EdgeModule, BuilderError>> of EdgeModuleBuilder::build
    builder,   \* ModulesContentBuilder under construction
    adds,      \* history: the EdgeModules handed to edge_module(), in call order
    result,    \* Option<Result<ModulesContent, BuilderError>> of ModulesContentBuilder::build
    manifest,  \* Option<ModulesContent>: the manifest the caller holds
    wire,      \* Option<JSON>: serde_json::to_value of the manifest as it is now, once taken;
               \* under SpecError the error body to be read
    decoded,   \* Option<[agent: Result<EdgeAgent>, hub: Result<EdgeHub>]> read back from wire;
               \* under SpecError the Result of reading the error body
    edits,     \* number of edits made through the *_mut accessors
    conn,      \* connection string handed to from_connection_string
    ttl,       \* expires_in_seconds
    now,       \* chrono::Utc::now() as unix seconds
    svc,       \* Option<outcome of the IoTHubService constructor>
    call,      \* Option<arguments of the generate_sas_token call the constructor made>
    hub_name,  \* iothub_name handed to from_private_key
    hub_key,   \* private_key handed to from_private_key
    given_token,   \* sas_token handed to from_sas_token
    twin,          \* Option<DesiredTwinBuilder>: the builder, until build consumes it
    patch,         \* Option<DesiredTwin> the caller holds
    manager,       \* Option<TwinManager>
    method,        \* Option<DirectMethod>
    query_builder, \* Option<QueryBuilder>
    query,         \* Option<Query>
    sent,          \* the HTTP requests handed to the client, in order
    replies,       \* what the service answers: replies[i] is the reply to request i
    returned        \* per request, the operation that sent it and its outcome once it has one

vars == <<mb, mres, builder, adds, result, manifest, wire, decoded, edits, conn, ttl, now, svc, call, hub_name, hub_key, given_token, twin, patch, manager, method, query_builder, query, sent, replies, returned>>

----------------------------------------------------------------------------
(* Rust Option / Result / HashMap *)

None == [some |-> FALSE]
Some(v) == [some |-> TRUE, val |-> v]
Ok(v) == [ok |-> TRUE, val |-> v]
Err(e) == [ok |-> FALSE, err |-> e]

EmptyMap == [k \in {} |-> 0]
\* HashMap::insert: the new value replaces an existing one under the same key
MapInsert(m, key, v) == [k \in (DOMAIN m) \cup {key} |-> IF k = key THEN v ELSE m[k]]
MapRemove(m, key) == [k \in (DOMAIN m) \ {key} |-> m[k]]

MissingValue(field) == [type |-> "MissingValue", field |-> field]
IncorrectValue(field) == [type |-> "IncorrectValue", field |-> field]

----------------------------------------------------------------------------
(* JSON values (serde_json::Value), tagged by kind *)

JNull == [t |-> "null"]
JStr(s) == [t |-> "str", v |-> s]
JNum(n) == [t |-> "num", v |-> n]
JObj(f) == [t |-> "obj", v |-> f]

\* the Rust String holding the compact JSON text of the document doc
Text(doc) == [text_of |-> doc]

\* serde_json::to_string(&Value): a Value has string keys and finite numbers,
\* so the Err branch the callers match on is never taken
to_string(val) == Ok(Text(val))

SCHEMA_VERSION == "1.0"
RUNTIME_TYPE == "docker"

\* the enums, each variant with its serde name
Status == [Running |-> "running", Stopped |-> "stopped"]
RestartPolicy == [Never |-> "never", OnFailure |-> "on-failure",
                  OnUnhealthy |-> "on-unhealthy", Always |-> "always"]
ImagePullPolicy == [OnCreate |-> "on-create", Never |-> "never"]

\* input domains of the setters
ModuleIds == {"SomeModule", "AnotherModule"}
Versions == {"1.0", "2.0"}
Images == {"some-image.acr"}
EnvKeys == {"great"}
ModuleEnvKeys == {"great", "another"}
EnvValues == {"environment"}
JsonDocs == {JObj([some |-> JStr("setting")])}

EnvironmentVariable(value) == [value |-> value]

----------------------------------------------------------------------------
(* EdgeModuleBuilder *)

EdgeModuleBuilderNew ==
    [module_id |-> None, version |-> None, status |-> None, restart_policy |-> None,
     image_pull_policy |-> None, env |-> EmptyMap, image |-> None, create_options |-> None]

\* mutant: image_pull_policy is treated as a required field
EdgeModuleBuilderCheck_PullPolicyRequired(b) ==
    IF ~b.module_id.some THEN Some(MissingValue("module_id"))
    ELSE IF ~b.version.some THEN Some(MissingValue("version"))
    ELSE IF ~b.status.some THEN Some(MissingValue("status"))
    ELSE IF ~b.restart_policy.some THEN Some(MissingValue("restart_policy"))
    ELSE IF ~b.image_pull_policy.some THEN Some(MissingValue("image_pull_policy"))
    ELSE IF ~b.image.some THEN Some(MissingValue("image"))
    ELSE None

\* the checks of build, in source order: the error of the first that fails
EdgeModuleBuilderCheck(b) ==
    IF ~b.module_id.some THEN Some(MissingValue("module_id"))
    ELSE IF ~b.version.some THEN Some(MissingValue("version"))
    ELSE IF ~b.status.some THEN Some(MissingValue("status"))
    ELSE IF ~b.restart_policy.some THEN Some(MissingValue("restart_policy"))
    ELSE IF ~b.image.some THEN Some(MissingValue("image"))
    ELSE IF b.create_options.some /\ ~to_string(b.create_options.val).ok
         THEN Some(IncorrectValue("create_options"))
    ELSE None

\* Option<serde_json::Value> -> Option<String> once to_string has succeeded
Stringified(opt) == IF opt.some THEN Some(to_string(opt.val).val) ELSE None

\* the EdgeModule build returns when every check has passed
EdgeModuleOf(b) ==
    [module_id |-> b.module_id.val,
     version |-> b.version.val,
     module_type |-> "docker",
     status |-> b.status.val,
     restart_policy |-> b.restart_policy.val,
     image_pull_policy |-> b.image_pull_policy,
     env |-> b.env,
     settings |-> [image |-> b.image.val,
                   create_options |-> Stringified(b.create_options)]]

EdgeModuleBuilderBuild(b) ==
    LET e == EdgeModuleBuilderCheck(b)
    IN IF e.some THEN Err(e.val) ELSE Ok(EdgeModuleOf(b))

----------------------------------------------------------------------------
(* ModulesContentBuilder *)

DockerVersions == {"1.3.2"}
AgentImages == {"acr_agent_image.com:1.0"}
HubImages == {"acr_hub_image.com:1.0"}
CredentialNames == {"AcrCredential"}
RouteNames == {"SomeRoute"}
RouteValues == {"FROM /messages/* INTO $upstream"}
TimeToLives == {1}

RegistryCredential(username, password, address) ==
    [username |-> username, password |-> password, address |-> address]

\* #[derive(Default)]
ModulesContentBuilderNew ==
    [minimum_docker_version |-> None,
     logging_options |-> None,
     registry_credentials |-> EmptyMap,
     edge_agent_env |-> EmptyMap,
     edge_hub_env |-> EmptyMap,
     edge_agent_image |-> None,
     edge_hub_image |-> None,
     edge_agent_create_options |-> None,
     edge_hub_create_options |-> None,
     modules |-> EmptyMap,
     routes |-> EmptyMap,
     time_to_live_secs |-> None]

\* mutant: minimum_docker_version is checked before time_to_live_secs
ModulesContentBuilderCheck_DockerFirst(b) ==
    IF ~b.minimum_docker_version.some THEN Some(MissingValue("minimum_docker_version"))
    ELSE IF ~b.time_to_live_secs.some THEN Some(MissingValue("time_to_live_secs"))
    ELSE IF ~b.edge_hub_image.some THEN Some(MissingValue("edge_hub_image"))
    ELSE IF ~b.edge_agent_image.some THEN Some(MissingValue("edge_agent_image"))
    ELSE None

\* the checks of build, in source order: the error of the first that fails
ModulesContentBuilderCheck(b) ==
    IF ~b.time_to_live_secs.some THEN Some(MissingValue("time_to_live_secs"))
    ELSE IF b.logging_options.some /\ ~to_string(b.logging_options.val).ok
         THEN Some(IncorrectValue("logging_options"))
    ELSE IF ~b.minimum_docker_version.some THEN Some(MissingValue("minimum_docker_version"))
    ELSE IF ~b.edge_hub_image.some THEN Some(MissingValue("edge_hub_image"))
    ELSE IF ~b.edge_agent_image.some THEN Some(MissingValue("edge_agent_image"))
    ELSE IF b.edge_agent_create_options.some /\ ~to_string(b.edge_agent_create_options.val).ok
         THEN Some(IncorrectValue("edgeagent_create_options"))
    ELSE IF b.edge_hub_create_options.some /\ ~to_string(b.edge_hub_create_options.val).ok
         THEN Some(IncorrectValue("edgehub_create_options"))
    ELSE None

\* mutant: the Edge Hub module takes the derive-order first variants
EdgeHubSettingsOf_FirstVariants(b) ==
    [settings |->
        [image |-> b.edge_hub_image.val,
         create_options |-> Stringified(b.edge_hub_create_options)],
     runtime_type |-> RUNTIME_TYPE,
     restart_policy |-> "Never",
     status |-> "Running",
     env |-> b.edge_hub_env]

\* system_modules.edge_hub of the manifest build returns
EdgeHubSettingsOf(b) ==
    [settings |->
        [image |-> b.edge_hub_image.val,
         create_options |-> Stringified(b.edge_hub_create_options)],
     runtime_type |-> RUNTIME_TYPE,
     restart_policy |-> "Always",
     status |-> "Running",
     env |-> b.edge_hub_env]

\* mutant: the Edge Hub section is left without its schema version
EdgeHubOf_NoSchemaVersion(b) ==
    [schema_version |-> "",
     routes |-> b.routes,
     store_and_forward_configuration |->
        [time_to_live_secs |-> b.time_to_live_secs.val]]

\* edge_hub of the manifest build returns
EdgeHubOf(b) ==
    [schema_version |-> SCHEMA_VERSION,
     routes |-> b.routes,
     store_and_forward_configuration |->
        [time_to_live_secs |-> b.time_to_live_secs.val]]

\* edge_agent of the manifest build returns
EdgeAgentOf(b) ==
    [schema_version |-> SCHEMA_VERSION,
     runtime |->
        [settings |->
            [min_docker_version |-> b.minimum_docker_version.val,
             logging_options |-> Stringified(b.logging_options),
             registry_credentials |-> b.registry_credentials],
         runtime_type |-> RUNTIME_TYPE],
     system_modules |->
        [edge_agent |->
            [runtime_type |-> RUNTIME_TYPE,
             settings |->
                [create_options |-> Stringified(b.edge_agent_create_options),
                 image |-> b.edge_agent_image.val],
             env |-> b.edge_agent_env],
         edge_hub |-> EdgeHubSettingsOf(b)],
     modules |-> b.modules]

ModulesContentBuilderBuild(b) ==
    LET e == ModulesContentBuilderCheck(b)
    IN IF e.some THEN Err(e.val)
       ELSE Ok([edge_agent |-> EdgeAgentOf(b), edge_hub |-> EdgeHubOf(b)])

\* mutant: an id already in the map keeps its first module
EdgeModuleInsert_KeepFirst(modules, edge_module) ==
    IF edge_module.module_id \in DOMAIN modules THEN modules
    ELSE MapInsert(modules, edge_module.module_id, edge_module)

\* edge_module: self.modules.insert(edge_module.module_id.clone(), edge_module)
EdgeModuleInsert(modules, edge_module) ==
    MapInsert(modules, edge_module.module_id, edge_module)

----------------------------------------------------------------------------
(* Serialize: the derived serde implementations and the hand-written one of
   ModulesContent.  A field under skip_serializing_if is left out of the
   object when the predicate holds. *)

Field(key, value) == key :> value
FieldIf(cond, key, value) == IF cond THEN key :> value ELSE EmptyMap

SerMap(m, Ser(_)) == JObj([k \in DOMAIN m |-> Ser(m[k])])
SerString(s) == JStr(s)
SerOptionString(o) == IF o.some THEN JStr(o.val) ELSE JNull

SerEnvironmentVariable(e) == JObj(Field("value", JStr(e.value)))

SerModuleSettings(s) ==
    JObj(Field("image", JStr(s.image))
         @@ FieldIf(s.create_options.some, "createOptions", SerOptionString(s.create_options)))

\* module_id is #[serde(skip)]; image_pull_policy has no skip attribute: None is null
SerEdgeModule(m) ==
    JObj(Field("version", JStr(m.version))
         @@ Field("type", JStr(m.module_type))
         @@ Field("status", JStr(Status[m.status]))
         @@ Field("restartPolicy", JStr(RestartPolicy[m.restart_policy]))
         @@ Field("imagePullPolicy",
                  IF m.image_pull_policy.some
                  THEN JStr(ImagePullPolicy[m.image_pull_policy.val]) ELSE JNull)
         @@ Field("env", SerMap(m.env, SerEnvironmentVariable))
         @@ Field("settings", SerModuleSettings(m.settings)))

SerRegistryCredential(c) ==
    JObj(Field("username", JStr(c.username))
         @@ Field("password", JStr(c.password))
         @@ Field("address", JStr(c.address)))

SerRuntimeSettings(s) ==
    JObj(Field("minDockerVersion", JStr(s.min_docker_version))
         @@ FieldIf(s.logging_options.some, "loggingOptions", SerOptionString(s.logging_options))
         @@ FieldIf(DOMAIN s.registry_credentials # {}, "registryCredentials",
                    SerMap(s.registry_credentials, SerRegistryCredential)))

SerRuntime(r) ==
    JObj(Field("settings", SerRuntimeSettings(r.settings))
         @@ Field("type", JStr(r.runtime_type)))

SerEdgeAgentSettings(s) ==
    JObj(Field("type", JStr(s.runtime_type))
         @@ Field("settings", SerModuleSettings(s.settings))
         @@ FieldIf(DOMAIN s.env # {}, "env", SerMap(s.env, SerEnvironmentVariable)))

SerEdgeHubSettings(s) ==
    JObj(Field("type", JStr(s.runtime_type))
         @@ Field("restartPolicy", JStr(RestartPolicy[s.restart_policy]))
         @@ Field("status", JStr(Status[s.status]))
         @@ Field("settings", SerModuleSettings(s.settings))
         @@ FieldIf(DOMAIN s.env # {}, "env", SerMap(s.env, SerEnvironmentVariable)))

SerSystemModules(s) ==
    JObj(Field("edgeHub", SerEdgeHubSettings(s.edge_hub))
         @@ Field("edgeAgent", SerEdgeAgentSettings(s.edge_agent)))

SerEdgeAgent(a) ==
    JObj(Field("schemaVersion", JStr(a.schema_version))
         @@ Field("runtime", SerRuntime(a.runtime))
         @@ Field("systemModules", SerSystemModules(a.system_modules))
         @@ Field("modules", SerMap(a.modules, SerEdgeModule)))

SerStoreAndForwardConfiguration(c) ==
    JObj(Field("timeToLiveSecs", JNum(c.time_to_live_secs)))

SerEdgeHub(h) ==
    JObj(Field("schemaVersion", JStr(h.schema_version))
         @@ Field("routes", SerMap(h.routes, SerString))
         @@ Field("storeAndForwardConfiguration",
                  SerStoreAndForwardConfiguration(h.store_and_forward_configuration)))

\* mutant: properties.desired written as two nested objects
SerModulesContent_Nested(mc) ==
    JObj(Field("$edgeAgent",
               JObj(Field("properties", JObj(Field("desired", SerEdgeAgent(mc.edge_agent))))))
         @@ Field("$edgeHub",
                  JObj(Field("properties", JObj(Field("desired", SerEdgeHub(mc.edge_hub)))))))

SerModulesContent(mc) ==
    JObj(Field("$edgeAgent", JObj(Field("properties.desired", SerEdgeAgent(mc.edge_agent))))
         @@ Field("$edgeHub", JObj(Field("properties.desired", SerEdgeHub(mc.edge_hub)))))

----------------------------------------------------------------------------
(* Deserialize: the derived serde implementations.  A struct is read from a
   JSON object; a field that is absent is an error ("missing field") unless
   its type is Option (then None) or it carries #[serde(default)]; keys the
   struct does not name are ignored. *)

MissingField(name) == [type |-> "missing field", field |-> name]
InvalidType(expected) == [type |-> "invalid type", expected |-> expected]
UnknownVariant(name) == [type |-> "unknown variant", variant |-> name]

Has(j, key) == key \in DOMAIN j.v

\* results is the tuple of the results of a struct's fields, in field order
AllOk(results) == \A i \in DOMAIN results : results[i].ok
FirstErr(results) ==
    results[CHOOSE i \in DOMAIN results :
                ~results[i].ok /\ \A j \in 1..(i - 1) : results[j].ok]

DeString(j) == IF j.t = "str" THEN Ok(j.v) ELSE Err(InvalidType("a string"))
DeU64(j) == IF j.t = "num" /\ j.v >= 0 THEN Ok(j.v) ELSE Err(InvalidType("u64"))
DeOptionString(j) == IF j.t = "null" THEN Ok(None)
                     ELSE IF j.t = "str" THEN Ok(Some(j.v))
                     ELSE Err(InvalidType("a string"))

\* an enum is read from the serde name of one of its variants
DeEnum(j, names) ==
    IF j.t # "str" THEN Err(InvalidType("a variant"))
    ELSE IF \E variant \in DOMAIN names : names[variant] = j.v
         THEN Ok(CHOOSE variant \in DOMAIN names : names[variant] = j.v)
         ELSE Err(UnknownVariant(j.v))

DeOptionEnum(j, names) ==
    IF j.t = "null" THEN Ok(None)
    ELSE LET r == DeEnum(j, names) IN IF r.ok THEN Ok(Some(r.val)) ELSE r

DeMap(j, De(_)) ==
    IF j.t # "obj" THEN Err(InvalidType("a map"))
    ELSE LET rs == [k \in DOMAIN j.v |-> De(j.v[k])]
         IN IF \A k \in DOMAIN rs : rs[k].ok
            THEN Ok([k \in DOMAIN rs |-> rs[k].val])
            ELSE rs[CHOOSE k \in DOMAIN rs : ~rs[k].ok]

DeEnvironmentVariable(j) ==
    IF j.t # "obj" THEN Err(InvalidType("struct EnvironmentVariable"))
    ELSE IF ~Has(j, "value") THEN Err(MissingField("value"))
    ELSE LET value == DeString(j.v["value"])
         IN IF ~value.ok THEN value ELSE Ok(EnvironmentVariable(value.val))

\* create_options: Option<String>, absent is None
DeModuleSettings(j) ==
    IF j.t # "obj" THEN Err(InvalidType("struct ModuleSettings"))
    ELSE IF ~Has(j, "image") THEN Err(MissingField("image"))
    ELSE LET image == DeString(j.v["image"])
             create_options == IF Has(j, "createOptions")
                               THEN DeOptionString(j.v["createOptions"]) ELSE Ok(None)
             rs == <<image, create_options>>
         IN IF ~AllOk(rs) THEN FirstErr(rs)
            ELSE Ok([image |-> image.val, create_options |-> create_options.val])

\* module_id: #[serde(skip)] takes String::default(); env: #[serde(default)];
\* image_pull_policy: Option, absent is None
DeEdgeModule(j) ==
    IF j.t # "obj" THEN Err(InvalidType("struct EdgeModule"))
    ELSE IF ~Has(j, "version") THEN Err(MissingField("version"))
    ELSE IF ~Has(j, "type") THEN Err(MissingField("type"))
    ELSE IF ~Has(j, "status") THEN Err(MissingField("status"))
    ELSE IF ~Has(j, "restartPolicy") THEN Err(MissingField("restartPolicy"))
    ELSE IF ~Has(j, "settings") THEN Err(MissingField("settings"))
    ELSE LET version == DeString(j.v["version"])
             module_type == DeString(j.v["type"])
             status == DeEnum(j.v["status"], Status)
             restart_policy == DeEnum(j.v["restartPolicy"], RestartPolicy)
             image_pull_policy == IF Has(j, "imagePullPolicy")
                                  THEN DeOptionEnum(j.v["imagePullPolicy"], ImagePullPolicy)
                                  ELSE Ok(None)
             env == IF Has(j, "env") THEN DeMap(j.v["env"], DeEnvironmentVariable)
                    ELSE Ok(EmptyMap)
             settings == DeModuleSettings(j.v["settings"])
             rs == <<version, module_type, status, restart_policy, image_pull_policy, env, settings>>
         IN IF ~AllOk(rs) THEN FirstErr(rs)
            ELSE Ok([module_id |-> "",
                     version |-> version.val,
                     module_type |-> module_type.val,
                     status |-> status.val,
                     restart_policy |-> restart_policy.val,
                     image_pull_policy |-> image_pull_policy.val,
                     env |-> env.val,
                     settings |-> settings.val])

DeRegistryCredential(j) ==
    IF j.t # "obj" THEN Err(InvalidType("struct RegistryCredential"))
    ELSE IF ~Has(j, "username") THEN Err(MissingField("username"))
    ELSE IF ~Has(j, "password") THEN Err(MissingField("password"))
    ELSE IF ~Has(j, "address") THEN Err(MissingField("address"))
    ELSE LET username == DeString(j.v["username"])
             password == DeString(j.v["password"])
             address == DeString(j.v["address"])
             rs == <<username, password, address>>
         IN IF ~AllOk(rs) THEN FirstErr(rs)
            ELSE Ok(RegistryCredential(username.val, password.val, address.val))

\* logging_options: Option, absent is None; registry_credentials has
\* skip_serializing_if but no default: absent is an error
DeRuntimeSettings(j) ==
    IF j.t # "obj" THEN Err(InvalidType("struct RuntimeSettings"))
    ELSE IF ~Has(j, "minDockerVersion") THEN Err(MissingField("minDockerVersion"))
    ELSE IF ~Has(j, "registryCredentials") THEN Err(MissingField("registryCredentials"))
    ELSE LET min_docker_version == DeString(j.v["minDockerVersion"])
             logging_options == IF Has(j, "loggingOptions")
                                THEN DeOptionString(j.v["loggingOptions"]) ELSE Ok(None)
             registry_credentials == DeMap(j.v["registryCredentials"], DeRegistryCredential)
             rs == <<min_docker_version, logging_options, registry_credentials>>
         IN IF ~AllOk(rs) THEN FirstErr(rs)
            ELSE Ok([min_docker_version |-> min_docker_version.val,
                     logging_options |-> logging_options.val,
                     registry_credentials |-> registry_credentials.val])

DeRuntime(j) ==
    IF j.t # "obj" THEN Err(InvalidType("struct Runtime"))
    ELSE IF ~Has(j, "settings") THEN Err(MissingField("settings"))
    ELSE IF ~Has(j, "type") THEN Err(MissingField("type"))
    ELSE LET settings == DeRuntimeSettings(j.v["settings"])
             runtime_type == DeString(j.v["type"])
             rs == <<settings, runtime_type>>
         IN IF ~AllOk(rs) THEN FirstErr(rs)
            ELSE Ok([settings |-> settings.val, runtime_type |-> runtime_type.val])

DeEdgeAgentSettings(j) ==
    IF j.t # "obj" THEN Err(InvalidType("struct EdgeAgentSettings"))
    ELSE IF ~Has(j, "type") THEN Err(MissingField("type"))
    ELSE IF ~Has(j, "settings") THEN Err(MissingField("settings"))
    ELSE LET runtime_type == DeString(j.v["type"])
             settings == DeModuleSettings(j.v["settings"])
             env == IF Has(j, "env") THEN DeMap(j.v["env"], DeEnvironmentVariable)
                    ELSE Ok(EmptyMap)
             rs == <<runtime_type, settings, env>>
         IN IF ~AllOk(rs) THEN FirstErr(rs)
            ELSE Ok([runtime_type |-> runtime_type.val, settings |-> settings.val,
                     env |-> env.val])

DeEdgeHubSettings(j) ==
    IF j.t # "obj" THEN Err(InvalidType("struct EdgeHubSettings"))
    ELSE IF ~Has(j, "type") THEN Err(MissingField("type"))
    ELSE IF ~Has(j, "restartPolicy") THEN Err(MissingField("restartPolicy"))
    ELSE IF ~Has(j, "status") THEN Err(MissingField("status"))
    ELSE IF ~Has(j, "settings") THEN Err(MissingField("settings"))
    ELSE LET runtime_type == DeString(j.v["type"])
             restart_policy == DeEnum(j.v["restartPolicy"], RestartPolicy)
             status == DeEnum(j.v["status"], Status)
             settings == DeModuleSettings(j.v["settings"])
             env == IF Has(j, "env") THEN DeMap(j.v["env"], DeEnvironmentVariable)
                    ELSE Ok(EmptyMap)
             rs == <<runtime_type, restart_policy, status, settings, env>>
         IN IF ~AllOk(rs) THEN FirstErr(rs)
            ELSE Ok([runtime_type |-> runtime_type.val,
                     restart_policy |-> restart_policy.val,
                     status |-> status.val,
                     settings |-> settings.val,
                     env |-> env.val])

DeSystemModules(j) ==
    IF j.t # "obj" THEN Err(InvalidType("struct SystemModules"))
    ELSE IF ~Has(j, "edgeHub") THEN Err(MissingField("edgeHub"))
    ELSE IF ~Has(j, "edgeAgent") THEN Err(MissingField("edgeAgent"))
    ELSE LET edge_hub == DeEdgeHubSettings(j.v["edgeHub"])
             edge_agent == DeEdgeAgentSettings(j.v["edgeAgent"])
             rs == <<edge_hub, edge_agent>>
         IN IF ~AllOk(rs) THEN FirstErr(rs)
            ELSE Ok([edge_hub |-> edge_hub.val, edge_agent |-> edge_agent.val])

DeEdgeAgent(j) ==
    IF j.t # "obj" THEN Err(InvalidType("struct EdgeAgent"))
    ELSE IF ~Has(j, "schemaVersion") THEN Err(MissingField("schemaVersion"))
    ELSE IF ~Has(j, "runtime") THEN Err(MissingField("runtime"))
    ELSE IF ~Has(j, "systemModules") THEN Err(MissingField("systemModules"))
    ELSE IF ~Has(j, "modules") THEN Err(MissingField("modules"))
    ELSE LET schema_version == DeString(j.v["schemaVersion"])
             runtime == DeRuntime(j.v["runtime"])
             system_modules == DeSystemModules(j.v["systemModules"])
             modules == DeMap(j.v["modules"], DeEdgeModule)
             rs == <<schema_version, runtime, system_modules, modules>>
         IN IF ~AllOk(rs) THEN FirstErr(rs)
            ELSE Ok([schema_version |-> schema_version.val,
                     runtime |-> runtime.val,
                     system_modules |-> system_modules.val,
                     modules |-> modules.val])

DeStoreAndForwardConfiguration(j) ==
    IF j.t # "obj" THEN Err(InvalidType("struct StoreAndForwardConfiguration"))
    ELSE IF ~Has(j, "timeToLiveSecs") THEN Err(MissingField("timeToLiveSecs"))
    ELSE LET time_to_live_secs == DeU64(j.v["timeToLiveSecs"])
         IN IF ~time_to_live_secs.ok THEN time_to_live_secs
            ELSE Ok([time_to_live_secs |-> time_to_live_secs.val])

DeEdgeHub(j) ==
    IF j.t # "obj" THEN Err(InvalidType("struct EdgeHub"))
    ELSE IF ~Has(j, "schemaVersion") THEN Err(MissingField("schemaVersion"))
    ELSE IF ~Has(j, "routes") THEN Err(MissingField("routes"))
    ELSE IF ~Has(j, "storeAndForwardConfiguration")
         THEN Err(MissingField("storeAndForwardConfiguration"))
    ELSE LET schema_version == DeString(j.v["schemaVersion"])
             routes == DeMap(j.v["routes"], DeString)
             store_and_forward_configuration ==
                 DeStoreAndForwardConfiguration(j.v["storeAndForwardConfiguration"])
             rs == <<schema_version, routes, store_and_forward_configuration>>
         IN IF ~AllOk(rs) THEN FirstErr(rs)
            ELSE Ok([schema_version |-> schema_version.val,
                     routes |-> routes.val,
                     store_and_forward_configuration |-> store_and_forward_configuration.val])

\* idle values of the variables a specification does not use
IdleConn == <<>>

EdgeModuleBuilder_module_id(id) ==
    /\ ~mres.some
    /\ mb' = [mb EXCEPT !.module_id = Some(id)]
    /\ UNCHANGED <<mres, builder, adds, result, manifest, wire, decoded, edits, conn, ttl, now, svc, call, hub_name, hub_key, given_token, twin, patch, manager, method, query_builder, query, sent, replies, returned>>

EdgeModuleBuilder_version(v) ==
    /\ ~mres.some
    /\ mb' = [mb EXCEPT !.version = Some(v)]
    /\ UNCHANGED <<mres, builder, adds, result, manifest, wire, decoded, edits, conn, ttl, now, svc, call, hub_name, hub_key, given_token, twin, patch, manager, method, query_builder, query, sent, replies, returned>>

EdgeModuleBuilder_status(s) ==
    /\ ~mres.some
    /\ mb' = [mb EXCEPT !.status = Some(s)]
    /\ UNCHANGED <<mres, builder, adds, result, manifest, wire, decoded, edits, conn, ttl, now, svc, call, hub_name, hub_key, given_token, twin, patch, manager, method, query_builder, query, sent, replies, returned>>

EdgeModuleBuilder_restart_policy(p) ==
    /\ ~mres.some
    /\ mb' = [mb EXCEPT !.restart_policy = Some(p)]
    /\ UNCHANGED <<mres, builder, adds, result, manifest, wire, decoded, edits, conn, ttl, now, svc, call, hub_name, hub_key, given_token, twin, patch, manager, method, query_builder, query, sent, replies, returned>>

EdgeModuleBuilder_image_pull_policy(p) ==
    /\ ~mres.some
    /\ mb' = [mb EXCEPT !.image_pull_policy = Some(p)]
    /\ UNCHANGED <<mres, builder, adds, result, manifest, wire, decoded, edits, conn, ttl, now, svc, call, hub_name, hub_key, given_token, twin, patch, manager, method, query_builder, query, sent, replies, returned>>

EdgeModuleBuilder_environment_variable(key, value) ==
    /\ ~mres.some
    /\ mb' = [mb EXCEPT !.env = MapInsert(@, key, EnvironmentVariable(value))]
    /\ UNCHANGED <<mres, builder, adds, result, manifest, wire, decoded, edits, conn, ttl, now, svc, call, hub_name, hub_key, given_token, twin, patch, manager, method, query_builder, query, sent, replies, returned>>

\* environment_variables(map): every pair of the given map is inserted
EdgeModuleBuilder_environment_variables(variables) ==
    /\ ~mres.some
    /\ mb' = [mb EXCEPT !.env =
                 [k \in (DOMAIN @) \cup (DOMAIN variables) |->
                     IF k \in DOMAIN variables THEN EnvironmentVariable(variables[k]) ELSE @[k]]]
    /\ UNCHANGED <<mres, builder, adds, result, manifest, wire, decoded, edits, conn, ttl, now, svc, call, hub_name, hub_key, given_token, twin, patch, manager, method, query_builder, query, sent, replies, returned>>

EdgeModuleBuilder_image(i) ==
    /\ ~mres.some
    /\ mb' = [mb EXCEPT !.image = Some(i)]
    /\ UNCHANGED <<mres, builder, adds, result, manifest, wire, decoded, edits, conn, ttl, now, svc, call, hub_name, hub_key, given_token, twin, patch, manager, method, query_builder, query, sent, replies, returned>>

EdgeModuleBuilder_create_options(o) ==
    /\ ~mres.some
    /\ mb' = [mb EXCEPT !.create_options = Some(o)]
    /\ UNCHANGED <<mres, builder, adds, result, manifest, wire, decoded, edits, conn, ttl, now, svc, call, hub_name, hub_key, given_token, twin, patch, manager, method, query_builder, query, sent, replies, returned>>

\* build(self) consumes the builder: no setter runs after it
EdgeModuleBuilder_build ==
    /\ ~mres.some
    /\ mres' = Some(EdgeModuleBuilderBuild(mb))
    /\ UNCHANGED <<mb, builder, adds, result, manifest, wire, decoded, edits, conn, ttl, now, svc, call, hub_name, hub_key, given_token, twin, patch, manager, method, query_builder, query, sent, replies, returned>>


----------------------------------------------------------------------------
(* Spec: ModulesContentBuilder setters, build, serialize, deserialize *)

\* most edge_module calls in one run
MaxAdds == 2

\* the EdgeModules handed to edge_module: built by EdgeModuleBuilder from
\* builders with every required field set
ModuleTemplates ==
    {[EdgeModuleBuilderNew EXCEPT !.version = Some("1.0"), !.status = Some("Running"),
                                  !.restart_policy = Some("Always"),
                                  !.image = Some("some-image.acr")],
     [EdgeModuleBuilderNew EXCEPT !.version = Some("2.0"), !.status = Some("Stopped"),
                                  !.restart_policy = Some("OnFailure"),
                                  !.image_pull_policy = Some("OnCreate"),
                                  !.env = MapInsert(EmptyMap, "great", EnvironmentVariable("environment")),
                                  !.image = Some("some-image.acr"),
                                  !.create_options = Some(JObj([some |-> JStr("setting")]))]}

EdgeModules ==
    {EdgeModuleBuilderBuild([t EXCEPT !.module_id = Some(id)]).val :
        id \in ModuleIds, t \in ModuleTemplates}

ModulesContentBuilder_minimum_docker_version(version) ==
    /\ ~result.some
    /\ builder' = [builder EXCEPT !.minimum_docker_version = Some(version)]
    /\ UNCHANGED <<mb, mres, adds, result, manifest, wire, decoded, edits, conn, ttl, now, svc, call, hub_name, hub_key, given_token, twin, patch, manager, method, query_builder, query, sent, replies, returned>>

ModulesContentBuilder_registry_credential(name, username, password, address) ==
    /\ ~result.some
    /\ builder' = [builder EXCEPT !.registry_credentials =
                      MapInsert(@, name, RegistryCredential(username, password, address))]
    /\ UNCHANGED <<mb, mres, adds, result, manifest, wire, decoded, edits, conn, ttl, now, svc, call, hub_name, hub_key, given_token, twin, patch, manager, method, query_builder, query, sent, replies, returned>>

ModulesContentBuilder_logging_options(logging_options) ==
    /\ ~result.some
    /\ builder' = [builder EXCEPT !.logging_options = Some(logging_options)]
    /\ UNCHANGED <<mb, mres, adds, result, manifest, wire, decoded, edits, conn, ttl, now, svc, call, hub_name, hub_key, given_token, twin, patch, manager, method, query_builder, query, sent, replies, returned>>

ModulesContentBuilder_route(name, route) ==
    /\ ~result.some
    /\ builder' = [builder EXCEPT !.routes = MapInsert(@, name, route)]
    /\ UNCHANGED <<mb, mres, adds, result, manifest, wire, decoded, edits, conn, ttl, now, svc, call, hub_name, hub_key, given_token, twin, patch, manager, method, query_builder, query, sent, replies, returned>>

ModulesContentBuilder_time_to_live_secs(seconds) ==
    /\ ~result.some
    /\ builder' = [builder EXCEPT !.time_to_live_secs = Some(seconds)]
    /\ UNCHANGED <<mb, mres, adds, result, manifest, wire, decoded, edits, conn, ttl, now, svc, call, hub_name, hub_key, given_token, twin, patch, manager, method, query_builder, query, sent, replies, returned>>

ModulesContentBuilder_edge_agent_image(image) ==
    /\ ~result.some
    /\ builder' = [builder EXCEPT !.edge_agent_image = Some(image)]
    /\ UNCHANGED <<mb, mres, adds, result, manifest, wire, decoded, edits, conn, ttl, now, svc, call, hub_name, hub_key, given_token, twin, patch, manager, method, query_builder, query, sent, replies, returned>>

ModulesContentBuilder_edge_hub_image(image) ==
    /\ ~result.some
    /\ builder' = [builder EXCEPT !.edge_hub_image = Some(image)]
    /\ UNCHANGED <<mb, mres, adds, result, manifest, wire, decoded, edits, conn, ttl, now, svc, call, hub_name, hub_key, given_token, twin, patch, manager, method, query_builder, query, sent, replies, returned>>

ModulesContentBuilder_edge_agent_create_options(create_options) ==
    /\ ~result.some
    /\ builder' = [builder EXCEPT !.edge_agent_create_options = Some(create_options)]
    /\ UNCHANGED <<mb, mres, adds, result, manifest, wire, decoded, edits, conn, ttl, now, svc, call, hub_name, hub_key, given_token, twin, patch, manager, method, query_builder, query, sent, replies, returned>>

ModulesContentBuilder_edge_hub_create_options(create_options) ==
    /\ ~result.some
    /\ builder' = [builder EXCEPT !.edge_hub_create_options = Some(create_options)]
    /\ UNCHANGED <<mb, mres, adds, result, manifest, wire, decoded, edits, conn, ttl, now, svc, call, hub_name, hub_key, given_token, twin, patch, manager, method, query_builder, query, sent, replies, returned>>

ModulesContentBuilder_edge_agent_env(key, value) ==
    /\ ~result.some
    /\ builder' = [builder EXCEPT !.edge_agent_env = MapInsert(@, key, EnvironmentVariable(value))]
    /\ UNCHANGED <<mb, mres, adds, result, manifest, wire, decoded, edits, conn, ttl, now, svc, call, hub_name, hub_key, given_token, twin, patch, manager, method, query_builder, query, sent, replies, returned>>

ModulesContentBuilder_edge_hub_env(key, value) ==
    /\ ~result.some
    /\ builder' = [builder EXCEPT !.edge_hub_env = MapInsert(@, key, EnvironmentVariable(value))]
    /\ UNCHANGED <<mb, mres, adds, result, manifest, wire, decoded, edits, conn, ttl, now, svc, call, hub_name, hub_key, given_token, twin, patch, manager, method, query_builder, query, sent, replies, returned>>

ModulesContentBuilder_edge_module(edge_module) ==
    /\ ~result.some
    /\ Len(adds) < MaxAdds
    /\ builder' = [builder EXCEPT !.modules = EdgeModuleInsert(@, edge_module)]
    /\ adds' = Append(adds, edge_module)
    /\ UNCHANGED <<mb, mres, result, manifest, wire, decoded, edits, conn, ttl, now, svc, call, hub_name, hub_key, given_token, twin, patch, manager, method, query_builder, query, sent, replies, returned>>

\* build(self) consumes the builder; on success the caller holds the manifest
ModulesContentBuilder_build ==
    /\ ~result.some
    /\ LET r == ModulesContentBuilderBuild(builder)
       IN /\ result' = Some(r)
          /\ manifest' = IF r.ok THEN Some(r.val) ELSE None
    /\ UNCHANGED <<mb, mres, builder, adds, wire, decoded, edits, conn, ttl, now, svc, call, hub_name, hub_key, given_token, twin, patch, manager, method, query_builder, query, sent, replies, returned>>

\* serde_json::to_value(modules_content)
Serialize ==
    /\ manifest.some
    /\ wire' = Some(SerModulesContent(manifest.val))
    /\ decoded' = None
    /\ UNCHANGED <<mb, mres, builder, adds, result, manifest, edits, conn, ttl, now, svc, call, hub_name, hub_key, given_token, twin, patch, manager, method, query_builder, query, sent, replies, returned>>

\* serde_json::from_value of the two section bodies of the wire document
Deserialize ==
    /\ wire.some
    /\ ~decoded.some
    /\ decoded' = Some([agent |-> DeEdgeAgent(wire.val.v["$edgeAgent"].v["properties.desired"]),
                        hub |-> DeEdgeHub(wire.val.v["$edgeHub"].v["properties.desired"])])
    /\ UNCHANGED <<mb, mres, builder, adds, result, manifest, wire, edits, conn, ttl, now, svc, call, hub_name, hub_key, given_token, twin, patch, manager, method, query_builder, query, sent, replies, returned>>

Init ==
    /\ mb = EdgeModuleBuilderNew
    /\ mres = None
    /\ builder = ModulesContentBuilderNew
    /\ adds = <<>>
    /\ result = None
    /\ manifest = None
    /\ wire = None
    /\ decoded = None
    /\ edits = 0
    /\ conn = IdleConn
    /\ ttl = 0
    /\ now = 0
    /\ svc = None
    /\ call = None
    /\ replies = <<>>
    /\ returned = <<>>
    /\ given_token = IdleConn
    /\ twin = None
    /\ patch = None
    /\ manager = None
    /\ method = None
    /\ query_builder = None
    /\ query = None
    /\ sent = <<>>
    /\ hub_name = IdleConn
    /\ hub_key = IdleConn

Next ==
    \/ \E version \in DockerVersions : ModulesContentBuilder_minimum_docker_version(version)
    \/ \E name \in CredentialNames :
           ModulesContentBuilder_registry_credential(name, "username", "password", "url.xyz")
    \/ \E o \in JsonDocs : ModulesContentBuilder_logging_options(o)
    \/ \E name \in RouteNames, route \in RouteValues : ModulesContentBuilder_route(name, route)
    \/ \E seconds \in TimeToLives : ModulesContentBuilder_time_to_live_secs(seconds)
    \/ \E image \in AgentImages : ModulesContentBuilder_edge_agent_image(image)
    \/ \E image \in HubImages : ModulesContentBuilder_edge_hub_image(image)
    \/ \E o \in JsonDocs : ModulesContentBuilder_edge_agent_create_options(o)
    \/ \E o \in JsonDocs : ModulesContentBuilder_edge_hub_create_options(o)
    \/ \E key \in EnvKeys, value \in EnvValues : ModulesContentBuilder_edge_agent_env(key, value)
    \/ \E key \in EnvKeys, value \in EnvValues : ModulesContentBuilder_edge_hub_env(key, value)
    \/ \E m \in EdgeModules : ModulesContentBuilder_edge_module(m)
    \/ ModulesContentBuilder_build
    \/ Serialize
    \/ Deserialize

Spec == Init /\ [][Next]_vars

----------------------------------------------------------------------------
(* SpecModule: EdgeModuleBuilder setters, then build *)

NextModule ==
    \/ \E id \in ModuleIds : EdgeModuleBuilder_module_id(id)
    \/ \E v \in Versions : EdgeModuleBuilder_version(v)
    \/ \E s \in DOMAIN Status : EdgeModuleBuilder_status(s)
    \/ \E p \in DOMAIN RestartPolicy : EdgeModuleBuilder_restart_policy(p)
    \/ \E p \in DOMAIN ImagePullPolicy : EdgeModuleBuilder_image_pull_policy(p)
    \/ \E key \in ModuleEnvKeys, value \in EnvValues :
           EdgeModuleBuilder_environment_variable(key, value)
    \/ \E variables \in [ModuleEnvKeys -> EnvValues] :
           EdgeModuleBuilder_environment_variables(variables)
    \/ \E i \in Images : EdgeModuleBuilder_image(i)
    \/ \E o \in JsonDocs : EdgeModuleBuilder_create_options(o)
    \/ EdgeModuleBuilder_build

SpecModule == Init /\ [][NextModule]_vars

----------------------------------------------------------------------------
(* Properties of ModulesContentBuilder, checked under Spec *)

RequiredOrder ==
    <<"time_to_live_secs", "minimum_docker_version", "edge_hub_image", "edge_agent_image">>
Unset == {i \in DOMAIN RequiredOrder : ~builder[RequiredOrder[i]].some}
FirstUnset == CHOOSE i \in Unset : \A j \in Unset : i <= j

\* C1: build succeeds exactly when time_to_live_secs, minimum_docker_version,
\* edge_hub_image and edge_agent_image are all set; otherwise it fails with the
\* missing-field error naming the first unset field in that order.
C1_BuildRequiresFourFields ==
    result.some =>
        IF Unset = {}
        THEN result.val.ok
        ELSE /\ ~result.val.ok
             /\ result.val.err = MissingValue(RequiredOrder[FirstUnset])

\* time_to_live_secs and a later field are both unset, and build has reported
C1_Witness ==
    /\ result.some
    /\ ~builder.time_to_live_secs.some
    /\ ~builder.minimum_docker_version.some
    /\ builder.edge_hub_image.some
    /\ ~result.val.ok

\* C2: every manifest of a successful build has an Edge Hub system module with
\* restart_policy = Always and status = Running, whatever setters were called.
C2_EdgeHubAlwaysRunning ==
    (result.some /\ result.val.ok) =>
        /\ result.val.val.edge_agent.system_modules.edge_hub.restart_policy = "Always"
        /\ result.val.val.edge_agent.system_modules.edge_hub.status = "Running"

\* a successful build after the Edge Hub setters and a module with another policy
C2_Witness ==
    /\ result.some /\ result.val.ok
    /\ builder.edge_hub_create_options.some
    /\ DOMAIN builder.edge_hub_env # {}
    /\ \E k \in DOMAIN builder.modules : builder.modules[k].restart_policy = "OnFailure"

\* C3: serializing a built manifest and deserializing the two section bodies
\* succeeds and recovers the same module-map keys and the same route entries.
C3_RoundTrip ==
    (decoded.some /\ result.some /\ result.val.ok) =>
        /\ decoded.val.agent.ok
        /\ decoded.val.hub.ok
        /\ DOMAIN decoded.val.agent.val.modules = DOMAIN result.val.val.edge_agent.modules
        /\ decoded.val.hub.val.routes = result.val.val.edge_hub.routes

\* the last index at which a module with the given id was added
LastAdd(id) == CHOOSE i \in DOMAIN adds :
                   /\ adds[i].module_id = id
                   /\ \A j \in DOMAIN adds : adds[j].module_id = id => j <= i

\* C4: after any sequence of edge_module calls and a successful build the module
\* map has one entry per distinct id added, every key is the module_id of its
\* module, and an id added more than once holds the last module added.
C4_ModuleMapLastWriteWins ==
    (result.some /\ result.val.ok) =>
        LET modules == result.val.val.edge_agent.modules
        IN /\ DOMAIN modules = {adds[i].module_id : i \in DOMAIN adds}
           /\ \A k \in DOMAIN modules :
                 /\ modules[k].module_id = k
                 /\ modules[k] = adds[LastAdd(k)]

\* a successful build after the same id was added twice with different modules
C4_Witness ==
    /\ result.some /\ result.val.ok
    /\ \E i, j \in DOMAIN adds :
          /\ i < j
          /\ adds[i].module_id = adds[j].module_id
          /\ adds[i] # adds[j]

\* C6: every manifest of a successful build has schema_version "1.0" on both
\* sections and runtime type "docker" on the runtime and both system modules.
C6_FixedSchemaAndRuntime ==
    (result.some /\ result.val.ok) =>
        LET mc == result.val.val
        IN /\ mc.edge_agent.schema_version = "1.0"
           /\ mc.edge_hub.schema_version = "1.0"
           /\ mc.edge_agent.runtime.runtime_type = "docker"
           /\ mc.edge_agent.system_modules.edge_agent.runtime_type = "docker"
           /\ mc.edge_agent.system_modules.edge_hub.runtime_type = "docker"

\* a successful build with the optional runtime inputs given
C6_Witness ==
    /\ result.some /\ result.val.ok
    /\ builder.logging_options.some
    /\ DOMAIN builder.registry_credentials # {}
    /\ DOMAIN builder.routes # {}

----------------------------------------------------------------------------
(* Properties of EdgeModuleBuilder, checked under SpecModule *)

ModuleRequiredOrder == <<"module_id", "version", "status", "restart_policy", "image">>
ModuleUnset == {i \in DOMAIN ModuleRequiredOrder : ~mb[ModuleRequiredOrder[i]].some}
ModuleFirstUnset == CHOOSE i \in ModuleUnset : \A j \in ModuleUnset : i <= j

\* C8: EdgeModuleBuilder.build succeeds exactly when module_id, version, status,
\* restart_policy and image are all set; otherwise it returns the missing-value
\* error naming the first unset field in that order and produces no EdgeModule.
\* image_pull_policy, environment variables and create_options are not required.
C8_ModuleBuildRequiresFiveFields ==
    mres.some =>
        IF ModuleUnset = {}
        THEN /\ mres.val.ok
             /\ mres.val.val.module_id = mb.module_id.val
             /\ mres.val.val.settings.image = mb.image.val
        ELSE /\ ~mres.val.ok
             /\ DOMAIN mres.val = {"ok", "err"}
             /\ mres.val.err = MissingValue(ModuleRequiredOrder[ModuleFirstUnset])

\* build has succeeded with none of the three optional inputs given
C8_Witness ==
    /\ mres.some /\ mres.val.ok
    /\ ~mb.image_pull_policy.some
    /\ DOMAIN mb.env = {}
    /\ ~mb.create_options.some

----------------------------------------------------------------------------
(* SpecManifest: a built ModulesContent edited through the *_mut accessors,
   serialized, read back, and reassembled with ModulesContent::new *)

\* most edits through the *_mut accessors in one run
MaxEdits == 2

ModuleMaps ==
    {EmptyMap}
    \cup {EdgeModuleInsert(EmptyMap, m) : m \in EdgeModules}
    \cup {EdgeModuleInsert(EdgeModuleInsert(EmptyMap, m1), m2) : m1, m2 \in EdgeModules}

\* builders on which build succeeds
CompleteBuilders ==
    {[ModulesContentBuilderNew EXCEPT
         !.time_to_live_secs = Some(1),
         !.minimum_docker_version = Some("1.3.2"),
         !.edge_hub_image = Some("acr_hub_image.com:1.0"),
         !.edge_agent_image = Some("acr_agent_image.com:1.0"),
         !.logging_options = lo,
         !.registry_credentials = rc,
         !.routes = ro,
         !.modules = mo] :
        lo \in {None} \cup {Some(o) : o \in JsonDocs},
        rc \in {EmptyMap,
                MapInsert(EmptyMap, "AcrCredential",
                          RegistryCredential("username", "password", "url.xyz"))},
        ro \in {EmptyMap, MapInsert(EmptyMap, "SomeRoute", "FROM /messages/* INTO $upstream")},
        mo \in ModuleMaps}

InitManifest ==
    /\ mb = EdgeModuleBuilderNew
    /\ mres = None
    /\ \E b \in CompleteBuilders :
          /\ builder = b
          /\ result = Some(ModulesContentBuilderBuild(b))
          /\ manifest = Some(ModulesContentBuilderBuild(b).val)
    /\ adds = <<>>
    /\ wire = None
    /\ decoded = None
    /\ edits = 0
    /\ conn = IdleConn
    /\ ttl = 0
    /\ now = 0
    /\ svc = None
    /\ call = None
    /\ replies = <<>>
    /\ returned = <<>>
    /\ given_token = IdleConn
    /\ twin = None
    /\ patch = None
    /\ manager = None
    /\ method = None
    /\ query_builder = None
    /\ query = None
    /\ sent = <<>>
    /\ hub_name = IdleConn
    /\ hub_key = IdleConn

\* edge_agent_mut().modules_mut().insert(key, edge_module)
EdgeAgent_modules_mut_insert(key, edge_module) ==
    /\ manifest.some
    /\ edits < MaxEdits
    /\ manifest' = Some([manifest.val EXCEPT !.edge_agent.modules = MapInsert(@, key, edge_module)])
    /\ edits' = edits + 1
    /\ wire' = None
    /\ decoded' = None
    /\ UNCHANGED <<mb, mres, builder, adds, result, conn, ttl, now, svc, call, hub_name, hub_key, given_token, twin, patch, manager, method, query_builder, query, sent, replies, returned>>

\* edge_agent_mut().modules_mut().remove(key)
EdgeAgent_modules_mut_remove(key) ==
    /\ manifest.some
    /\ edits < MaxEdits
    /\ key \in DOMAIN manifest.val.edge_agent.modules
    /\ manifest' = Some([manifest.val EXCEPT !.edge_agent.modules = MapRemove(@, key)])
    /\ edits' = edits + 1
    /\ wire' = None
    /\ decoded' = None
    /\ UNCHANGED <<mb, mres, builder, adds, result, conn, ttl, now, svc, call, hub_name, hub_key, given_token, twin, patch, manager, method, query_builder, query, sent, replies, returned>>

\* module_id is a pub field: modules_mut().get_mut(key).module_id = id
EdgeModule_set_module_id(key, id) ==
    /\ manifest.some
    /\ edits < MaxEdits
    /\ key \in DOMAIN manifest.val.edge_agent.modules
    /\ manifest' = Some([manifest.val EXCEPT !.edge_agent.modules[key].module_id = id])
    /\ edits' = edits + 1
    /\ wire' = None
    /\ decoded' = None
    /\ UNCHANGED <<mb, mres, builder, adds, result, conn, ttl, now, svc, call, hub_name, hub_key, given_token, twin, patch, manager, method, query_builder, query, sent, replies, returned>>

\* edge_hub_mut().routes_mut().insert(name, route)
EdgeHub_routes_mut_insert(name, route) ==
    /\ manifest.some
    /\ edits < MaxEdits
    /\ manifest' = Some([manifest.val EXCEPT !.edge_hub.routes = MapInsert(@, name, route)])
    /\ edits' = edits + 1
    /\ wire' = None
    /\ decoded' = None
    /\ UNCHANGED <<mb, mres, builder, adds, result, conn, ttl, now, svc, call, hub_name, hub_key, given_token, twin, patch, manager, method, query_builder, query, sent, replies, returned>>

StoreAndForwardConfiguration_set_time_to_live_secs(seconds) ==
    /\ manifest.some
    /\ edits < MaxEdits
    /\ manifest' = Some([manifest.val EXCEPT !.edge_hub.store_and_forward_configuration.time_to_live_secs = seconds])
    /\ edits' = edits + 1
    /\ wire' = None
    /\ decoded' = None
    /\ UNCHANGED <<mb, mres, builder, adds, result, conn, ttl, now, svc, call, hub_name, hub_key, given_token, twin, patch, manager, method, query_builder, query, sent, replies, returned>>

RuntimeSettings_set_min_docker_version(version) ==
    /\ manifest.some
    /\ edits < MaxEdits
    /\ manifest' = Some([manifest.val EXCEPT !.edge_agent.runtime.settings.min_docker_version = version])
    /\ edits' = edits + 1
    /\ wire' = None
    /\ decoded' = None
    /\ UNCHANGED <<mb, mres, builder, adds, result, conn, ttl, now, svc, call, hub_name, hub_key, given_token, twin, patch, manager, method, query_builder, query, sent, replies, returned>>

RuntimeSettings_set_logging_options(logging_options) ==
    /\ manifest.some
    /\ edits < MaxEdits
    /\ manifest' = Some([manifest.val EXCEPT !.edge_agent.runtime.settings.logging_options = logging_options])
    /\ edits' = edits + 1
    /\ wire' = None
    /\ decoded' = None
    /\ UNCHANGED <<mb, mres, builder, adds, result, conn, ttl, now, svc, call, hub_name, hub_key, given_token, twin, patch, manager, method, query_builder, query, sent, replies, returned>>

\* runtime_mut().settings_mut().registry_credentials_mut().remove(name)
RuntimeSettings_registry_credentials_mut_remove(name) ==
    /\ manifest.some
    /\ edits < MaxEdits
    /\ name \in DOMAIN manifest.val.edge_agent.runtime.settings.registry_credentials
    /\ manifest' = Some([manifest.val EXCEPT !.edge_agent.runtime.settings.registry_credentials = MapRemove(@, name)])
    /\ edits' = edits + 1
    /\ wire' = None
    /\ decoded' = None
    /\ UNCHANGED <<mb, mres, builder, adds, result, conn, ttl, now, svc, call, hub_name, hub_key, given_token, twin, patch, manager, method, query_builder, query, sent, replies, returned>>

\* system_modules_mut().edge_hub_mut().settings_mut().set_create_options(o)
ModuleSettings_set_create_options(create_options) ==
    /\ manifest.some
    /\ edits < MaxEdits
    /\ manifest' = Some([manifest.val EXCEPT !.edge_agent.system_modules.edge_hub.settings.create_options =
                                 Stringified(create_options)])
    /\ edits' = edits + 1
    /\ wire' = None
    /\ decoded' = None
    /\ UNCHANGED <<mb, mres, builder, adds, result, conn, ttl, now, svc, call, hub_name, hub_key, given_token, twin, patch, manager, method, query_builder, query, sent, replies, returned>>

\* ModulesContent::new(edge_agent, edge_hub) on the two sections read back
ModulesContent_new ==
    /\ decoded.some
    /\ decoded.val.agent.ok
    /\ decoded.val.hub.ok
    /\ manifest' = Some([edge_agent |-> decoded.val.agent.val, edge_hub |-> decoded.val.hub.val])
    /\ manifest' # manifest
    /\ wire' = None
    /\ decoded' = None
    /\ UNCHANGED <<mb, mres, builder, adds, result, edits, conn, ttl, now, svc, call, hub_name, hub_key, given_token, twin, patch, manager, method, query_builder, query, sent, replies, returned>>

NextManifest ==
    \/ \E key \in ModuleIds, m \in EdgeModules : EdgeAgent_modules_mut_insert(key, m)
    \/ \E key \in ModuleIds : EdgeAgent_modules_mut_remove(key)
    \/ \E key \in ModuleIds, id \in {"RenamedModule"} : EdgeModule_set_module_id(key, id)
    \/ \E name \in RouteNames, route \in RouteValues : EdgeHub_routes_mut_insert(name, route)
    \/ \E seconds \in {0, 1} : StoreAndForwardConfiguration_set_time_to_live_secs(seconds)
    \/ \E version \in {"1.3.2", "1.4.0"} : RuntimeSettings_set_min_docker_version(version)
    \/ \E o \in {None} \cup {Some(Text(d)) : d \in JsonDocs} :
           RuntimeSettings_set_logging_options(o)
    \/ \E name \in CredentialNames : RuntimeSettings_registry_credentials_mut_remove(name)
    \/ \E o \in {None} \cup {Some(d) : d \in JsonDocs} : ModuleSettings_set_create_options(o)
    \/ Serialize
    \/ Deserialize
    \/ ModulesContent_new

SpecManifest == InitManifest /\ [][NextManifest]_vars

----------------------------------------------------------------------------
(* Properties of the manifest data model and wire format, checked under
   SpecManifest *)

KeysAreModuleIds(edge_agent) ==
    \A k \in DOMAIN edge_agent.modules : edge_agent.modules[k].module_id = k

\* C5: in every manifest reachable through the library (built, edited through
\* the *_mut accessors, or read back from an Edge Agent section) schema_version
\* is the fixed constant and every module-map key is the module_id of its module.
C5_ManifestInvariant ==
    /\ manifest.some =>
          /\ manifest.val.edge_agent.schema_version = SCHEMA_VERSION
          /\ manifest.val.edge_hub.schema_version = SCHEMA_VERSION
          /\ KeysAreModuleIds(manifest.val.edge_agent)
    /\ (decoded.some /\ decoded.val.agent.ok) =>
          /\ decoded.val.agent.val.schema_version = SCHEMA_VERSION
          /\ KeysAreModuleIds(decoded.val.agent.val)

\* C7: serializing any ModulesContent yields an object with exactly the keys
\* $edgeAgent and $edgeHub, each an object with the single key
\* properties.desired holding the serialized section body.
C7_WireNesting ==
    wire.some =>
        /\ wire.val.t = "obj"
        /\ DOMAIN wire.val.v = {"$edgeAgent", "$edgeHub"}
        /\ \A section \in DOMAIN wire.val.v :
              /\ wire.val.v[section].t = "obj"
              /\ DOMAIN wire.val.v[section].v = {"properties.desired"}
        /\ wire.val.v["$edgeAgent"].v["properties.desired"]
              = SerEdgeAgent(manifest.val.edge_agent)
        /\ wire.val.v["$edgeHub"].v["properties.desired"]
              = SerEdgeHub(manifest.val.edge_hub)

\* an edited manifest with modules and routes has been serialized
C7_Witness ==
    /\ wire.some
    /\ edits > 0
    /\ DOMAIN manifest.val.edge_agent.modules # {}
    /\ DOMAIN manifest.val.edge_hub.routes # {}

----------------------------------------------------------------------------
(* IoTHubService: credential construction (iothub.rs).  The connection string
   and everything cut out of it are sequences of one-character strings;
   indices returned by Find are zero-based byte offsets as in Rust. *)

S_HostNameEq == <<"H", "o", "s", "t", "N", "a", "m", "e", "=">>
S_SharedAccessKeyEq == <<"S", "h", "a", "r", "e", "d", "A", "c", "c", "e", "s", "s", "K", "e", "y", "=">>
S_SharedAccessKeyNameEq == <<"S", "h", "a", "r", "e", "d", "A", "c", "c", "e", "s", "s", "K", "e", "y", "N", "a", "m", "e", "=">>
S_AzureDevicesNet == <<".", "a", "z", "u", "r", "e", "-", "d", "e", "v", "i", "c", "e", "s", ".", "n", "e", "t">>
S_iothubowner == <<"i", "o", "t", "h", "u", "b", "o", "w", "n", "e", "r">>

\* a constructor that aborts (panics) returns nothing
Panicked == [ok |-> FALSE, panicked |-> TRUE]
InvalidInput(message) == [kind |-> "InvalidInput", message |-> message]

Min(S) == CHOOSE x \in S : \A y \in S : x <= y
Max(S) == CHOOSE x \in S : \A y \in S : x >= y

\* the one-based positions at which pat occurs in s
Occurrences(s, pat) ==
    {i \in 1..(Len(s) - Len(pat) + 1) : SubSeq(s, i, i + Len(pat) - 1) = pat}

\* mutant: the offset of the last occurrence (rfind)
Find_Last(s, pat) ==
    IF Occurrences(s, pat) = {} THEN None ELSE Some(Max(Occurrences(s, pat)) - 1)

\* str::find: the offset of the first occurrence
Find(s, pat) ==
    IF Occurrences(s, pat) = {} THEN None ELSE Some(Min(Occurrences(s, pat)) - 1)

\* str::contains
Contains(s, pat) == Occurrences(s, pat) # {}

\* str::split(sep).collect(): one part more than there are separators, so the
\* empty string yields one empty part
Split(s, sep) ==
    LET seps == {i \in 1..Len(s) : s[i] = sep}
        n == Cardinality(seps)
        pos(k) == CHOOSE q \in seps : Cardinality({r \in seps : r < q}) = k - 1
    IN [k \in 1..(n + 1) |->
           SubSeq(s, IF k = 1 THEN 1 ELSE pos(k - 1) + 1,
                     IF k = n + 1 THEN Len(s) ELSE pos(k) - 1)]

\* &val[start..end]: aborts when start > end or end is past the end
SliceOk(s, start, end) == start <= end /\ end <= Len(s)
Slice(s, start, end) == SubSeq(s, start + 1, end)

\* mutant: the key is only taken once the host name has been found
FieldStep_KeyAfterHost(acc, val) ==
    LET eq == Find(val, <<"=">>)
    IN IF ~eq.some THEN acc
       ELSE LET start == eq.val + 1
                host == Contains(val, S_HostNameEq)
                end == Find(val, S_AzureDevicesNet)
            IN IF host /\ ~end.some THEN acc
               ELSE IF host /\ ~SliceOk(val, start, end.val)
                    THEN [acc EXCEPT !.panicked = TRUE]
               ELSE LET named == IF host
                                 THEN [acc EXCEPT !.iothub_name = Some(Slice(val, start, end.val))]
                                 ELSE acc
                    IN IF Contains(val, S_SharedAccessKeyEq) /\ named.iothub_name.some
                       THEN [named EXCEPT !.primary_key = Some(Slice(val, start, Len(val)))]
                       ELSE named

\* one iteration of the loop over the parts: acc holds iothub_name, primary_key
\* and whether a slice has aborted
FieldStep(acc, val) ==
    LET eq == Find(val, <<"=">>)
    IN IF ~eq.some THEN acc
       ELSE LET start == eq.val + 1
                host == Contains(val, S_HostNameEq)
                end == Find(val, S_AzureDevicesNet)
            IN IF host /\ ~end.some THEN acc
               ELSE IF host /\ ~SliceOk(val, start, end.val)
                    THEN [acc EXCEPT !.panicked = TRUE]
               ELSE LET named == IF host
                                 THEN [acc EXCEPT !.iothub_name = Some(Slice(val, start, end.val))]
                                 ELSE acc
                    IN IF Contains(val, S_SharedAccessKeyEq)
                       THEN [named EXCEPT !.primary_key = Some(Slice(val, start, Len(val)))]
                       ELSE named

RECURSIVE ParseFields(_, _, _)
ParseFields(parts, i, acc) ==
    IF i > Len(parts) \/ acc.panicked THEN acc
    ELSE ParseFields(parts, i + 1, FieldStep(acc, parts[i]))

\* mutant: only too few fields are rejected
ConnectionStringArgs_AtLeastThree(connection_string, expires_in_seconds) ==
    LET parts == Split(connection_string, ";")
    IN IF Len(parts) < 3
       THEN Err(InvalidInput("Given connection string is invalid"))
       ELSE LET p == ParseFields(parts, 1, [iothub_name |-> None, primary_key |-> None,
                                            panicked |-> FALSE])
            IN IF p.panicked THEN Panicked
               ELSE IF ~p.iothub_name.some
                    THEN Err(InvalidInput("Failed to get the hostname from the given connection string!"))
               ELSE IF ~p.primary_key.some
                    THEN Err(InvalidInput("Failed to get the primary key from the given connection string!"))
               ELSE Ok([iothub_name |-> p.iothub_name.val,
                        private_key |-> p.primary_key.val,
                        expires_in_seconds |-> expires_in_seconds])

\* from_connection_string up to the call of generate_sas_token: the arguments
\* of that call, or the error returned before it
ConnectionStringArgs(connection_string, expires_in_seconds) ==
    LET parts == Split(connection_string, ";")
    IN IF Len(parts) # 3
       THEN Err(InvalidInput("Given connection string is invalid"))
       ELSE LET p == ParseFields(parts, 1, [iothub_name |-> None, primary_key |-> None,
                                            panicked |-> FALSE])
            IN IF p.panicked THEN Panicked
               ELSE IF ~p.iothub_name.some
                    THEN Err(InvalidInput("Failed to get the hostname from the given connection string!"))
               ELSE IF ~p.primary_key.some
                    THEN Err(InvalidInput("Failed to get the primary key from the given connection string!"))
               ELSE Ok([iothub_name |-> p.iothub_name.val,
                        private_key |-> p.primary_key.val,
                        expires_in_seconds |-> expires_in_seconds])

Base64Alphabet ==
    {"A", "B", "C", "D", "E", "F", "G", "H", "I", "J", "K", "L", "M", "N", "O", "P", "Q", "R", "S", "T", "U", "V", "W", "X", "Y", "Z", "a", "b", "c", "d", "e", "f",
     "g", "h", "i", "j", "k", "l", "m", "n", "o", "p", "q", "r", "s", "t", "u", "v", "w", "x", "y", "z", "0", "1", "2", "3", "4", "5", "6", "7", "8", "9", "+", "/"}

\* mutant: characters outside the alphabet are skipped
decode_Lenient(input) ==
    LET pads == {n \in 0..2 : n <= Len(input) /\
                    \A i \in (Len(input) - n + 1)..Len(input) : input[i] = "="}
        n == Max(pads)
        symbols == SelectSeq(SubSeq(input, 1, Len(input) - n), LAMBDA c : c \in Base64Alphabet)
    IN IF /\ Len(symbols) % 4 # 1
          /\ (n > 0 => (Len(symbols) + n) % 4 = 0)
       THEN Ok(symbols)
       ELSE Err([kind |-> "DecodeError"])

\* base64::decode with the standard alphabet: up to two '=' close the input,
\* every other character is of the alphabet, and a single left-over symbol is
\* no byte.  The bytes are stood for by the symbols that encode them.
decode(input) ==
    LET pads == {n \in 0..2 : n <= Len(input) /\
                    \A i \in (Len(input) - n + 1)..Len(input) : input[i] = "="}
        n == Max(pads)
        symbols == SubSeq(input, 1, Len(input) - n)
    IN IF /\ \A i \in DOMAIN symbols : symbols[i] \in Base64Alphabet
          /\ Len(symbols) % 4 # 1
          /\ (n > 0 => (Len(symbols) + n) % 4 = 0)
       THEN Ok(symbols)
       ELSE Err([kind |-> "DecodeError"])

\* the decimal text format!("{}") and to_string write for an i64: the digits,
\* after a '-' when the number is negative
Digits == <<"0", "1", "2", "3", "4", "5", "6", "7", "8", "9">>

RECURSIVE NatToString(_)
NatToString(n) ==
    IF n < 10 THEN <<Digits[n + 1]>>
    ELSE NatToString(n \div 10) \o <<Digits[(n % 10) + 1]>>

IntToString(n) == IF n < 0 THEN <<"-">> \o NatToString(0 - n) ELSE NatToString(n)

\* url::form_urlencoded::byte_serialize: letters, digits and * - . _ are kept,
\* a space becomes '+', every other byte becomes %XX
Unreserved == (Base64Alphabet \ {"+", "/"}) \cup {"*", "-", ".", "_"}

PercentEncoded ==
    [c \in {"=", "+", "/", "!", ";", "\n"} |->
        CASE c = "=" -> <<"%", "3", "D">>
          [] c = "+" -> <<"%", "2", "B">>
          [] c = "/" -> <<"%", "2", "F">>
          [] c = "!" -> <<"%", "2", "1">>
          [] c = ";" -> <<"%", "3", "B">>
          [] c = "\n" -> <<"%", "0", "A">>]

RECURSIVE byte_serialize(_)
byte_serialize(s) ==
    IF s = <<>> THEN <<>>
    ELSE (IF Head(s) \in Unreserved THEN <<Head(s)>>
          ELSE IF Head(s) = " " THEN <<"+">>
          ELSE PercentEncoded[Head(s)]) \o byte_serialize(Tail(s))

\* Serializer::append_pair: the pairs are written in the order of the calls,
\* name and value each through byte_serialize
append_pair(pairs, pair_name, value) == Append(pairs, <<pair_name, byte_serialize(value)>>)

\* HMAC-SHA256 takes a key of any length, so new_varkey does not fail; the MAC
\* is a function of the key bytes and the signed data
HmacSHA256(key_bytes, data) == [hmac_key |-> key_bytes, data |-> data]

\* encode_config(mac, STANDARD) and byte_serialize of it: the text of a MAC is
\* not computed, it is stood for by the MAC it encodes
encode_config(mac) == [base64_of |-> mac]
append_pair_sig(pairs, pair_name, value) == Append(pairs, <<pair_name, [form_urlencoded_of |-> value]>>)

\* mutant: a ttl below zero is taken for zero
ExpiryDateSeconds_Clamped(utc_now, expires_in_seconds) ==
    IF expires_in_seconds < 0 THEN utc_now ELSE utc_now + expires_in_seconds

\* (Utc::now() + Duration::seconds(expires_in_seconds)).timestamp()
ExpiryDateSeconds(utc_now, expires_in_seconds) == utc_now + expires_in_seconds

\* mutant: the expiry is written before the key name
generate_sas_token_ExpiryThird(iothub_name, private_key, expires_in_seconds, utc_now) ==
    LET expiry_date_seconds == ExpiryDateSeconds(utc_now, expires_in_seconds)
        data == iothub_name \o S_AzureDevicesNet \o <<"\n">> \o IntToString(expiry_date_seconds)
        decoded_key == decode(private_key)
    IN IF ~decoded_key.ok THEN decoded_key
       ELSE LET sas_token == encode_config(HmacSHA256(decoded_key.val, data))
                sr == append_pair(<<>>, "sr", iothub_name \o S_AzureDevicesNet)
                sig == append_pair_sig(sr, "sig", sas_token)
                se == append_pair(sig, "se", IntToString(expiry_date_seconds))
                skn == append_pair(se, "skn", S_iothubowner)
            IN Ok([prefix |-> "SharedAccessSignature ", encoded |-> skn])

\* the token is the text "SharedAccessSignature " followed by the serialized
\* pairs; the pairs are kept as a sequence, the '&' and '=' between them are
\* not written out
generate_sas_token(iothub_name, private_key, expires_in_seconds, utc_now) ==
    LET expiry_date_seconds == ExpiryDateSeconds(utc_now, expires_in_seconds)
        data == iothub_name \o S_AzureDevicesNet \o <<"\n">> \o IntToString(expiry_date_seconds)
        decoded_key == decode(private_key)
    IN IF ~decoded_key.ok THEN decoded_key
       ELSE LET sas_token == encode_config(HmacSHA256(decoded_key.val, data))
                sr == append_pair(<<>>, "sr", iothub_name \o S_AzureDevicesNet)
                sig == append_pair_sig(sr, "sig", sas_token)
                skn == append_pair(sig, "skn", S_iothubowner)
                se == append_pair(skn, "se", IntToString(expiry_date_seconds))
            IN Ok([prefix |-> "SharedAccessSignature ", encoded |-> se])

\* a constructor that hands out a service with an empty token when signing
\* fails
from_private_key_Unsigned(iothub_name, private_key, expires_in_seconds, utc_now) ==
    LET sas_token == generate_sas_token(iothub_name, private_key, expires_in_seconds, utc_now)
    IN IF ~sas_token.ok THEN Ok([iothub_name |-> iothub_name, sas_token |-> <<>>])
       ELSE Ok([iothub_name |-> iothub_name, sas_token |-> sas_token.val])

from_private_key(iothub_name, private_key, expires_in_seconds, utc_now) ==
    LET sas_token == generate_sas_token(iothub_name, private_key, expires_in_seconds, utc_now)
    IN IF ~sas_token.ok THEN sas_token
       ELSE Ok([iothub_name |-> iothub_name, sas_token |-> sas_token.val])

from_connection_string(connection_string, expires_in_seconds, utc_now) ==
    LET args == ConnectionStringArgs(connection_string, expires_in_seconds)
    IN IF ~args.ok THEN args
       ELSE LET sas_token == generate_sas_token(args.val.iothub_name, args.val.private_key,
                                                args.val.expires_in_seconds, utc_now)
            IN IF ~sas_token.ok THEN sas_token
               ELSE Ok([iothub_name |-> args.val.iothub_name, sas_token |-> sas_token.val])

IoTHubService_from_connection_string ==
    /\ ~svc.some
    /\ svc' = Some(from_connection_string(conn, ttl, now))
    /\ call' = LET args == ConnectionStringArgs(conn, ttl)
               IN IF args.ok THEN Some(args.val) ELSE None
    /\ UNCHANGED <<mb, mres, builder, adds, result, manifest, wire, decoded, edits, conn, ttl, now, hub_name, hub_key, given_token, twin, patch, manager, method, query_builder, query, sent, replies, returned>>

IoTHubService_from_private_key ==
    /\ ~svc.some
    /\ svc' = Some(from_private_key(hub_name, hub_key, ttl, now))
    /\ call' = Some([iothub_name |-> hub_name, private_key |-> hub_key,
                     expires_in_seconds |-> ttl])
    /\ UNCHANGED <<mb, mres, builder, adds, result, manifest, wire, decoded, edits, conn, ttl, now, hub_name, hub_key, given_token, twin, patch, manager, method, query_builder, query, sent, replies, returned>>

----------------------------------------------------------------------------
(* SpecConn: from_connection_string on connection strings put together from
   at most MaxFields fields of a pool *)

\* most semicolon-separated fields of a connection string
MaxFields == 4

HubNames == {<<"c", "o", "o", "l", "-", "i", "o", "t", "-", "h", "u", "b">>, <<"h", "u", "b", "2">>}
PolicyNames == {S_iothubowner, <<"s", "e", "r", "v", "i", "c", "e">>}
\* valid base64 with two, one and no padding characters
ValidKeys == {<<"Y", "Q", "=", "=">>, <<"Y", "W", "I", "=">>, <<"Y", "W", "J", "j">>}

HostNameValue(name) == name \o S_AzureDevicesNet
HostNameField(name) == S_HostNameEq \o HostNameValue(name)
SharedAccessKeyNameField(policy) == S_SharedAccessKeyNameEq \o policy
SharedAccessKeyField(key) == S_SharedAccessKeyEq \o key

FieldPool ==
    {HostNameField(name) : name \in HubNames}
    \cup {SharedAccessKeyNameField(policy) : policy \in PolicyNames}
    \cup {SharedAccessKeyField(key) : key \in ValidKeys}
    \cup {SharedAccessKeyField(<<"a", "!", "b">>),
          <<>>,
          S_HostNameEq \o <<"c", "o", "o", "l", "-", "i", "o", "t", "-", "h", "u", "b", ".", "a", "z", "u", "r", "e", "-">>,
          S_AzureDevicesNet \o S_HostNameEq \o <<"x">>,
          S_HostNameEq \o <<"=">> \o HostNameValue(<<"c", "o", "o", "l", "-", "i", "o", "t", "-", "h", "u", "b">>)}

RECURSIVE Join(_)
Join(fields) ==
    IF Len(fields) = 1 THEN fields[1]
    ELSE fields[1] \o <<";">> \o Join(Tail(fields))

InitConn ==
    /\ mb = EdgeModuleBuilderNew
    /\ mres = None
    /\ builder = ModulesContentBuilderNew
    /\ adds = <<>>
    /\ result = None
    /\ manifest = None
    /\ wire = None
    /\ decoded = None
    /\ edits = 0
    /\ \E n \in 1..MaxFields : \E fields \in [1..n -> FieldPool] : conn = Join(fields)
    /\ ttl \in {3600}
    /\ now \in {1600000000}
    /\ svc = None
    /\ call = None
    /\ replies = <<>>
    /\ returned = <<>>
    /\ given_token = IdleConn
    /\ twin = None
    /\ patch = None
    /\ manager = None
    /\ method = None
    /\ query_builder = None
    /\ query = None
    /\ sent = <<>>
    /\ hub_name = IdleConn
    /\ hub_key = IdleConn

NextConn == IoTHubService_from_connection_string

SpecConn == InitConn /\ [][NextConn]_vars

----------------------------------------------------------------------------
(* Properties of from_connection_string, checked under SpecConn *)

\* C9: from_connection_string fails with the invalid-connection-string error
\* for every input whose number of semicolon-separated fields is not 3, the
\* empty string included, whatever the fields contain; no credential returned.
C9_FieldCountNotThreeFails ==
    (svc.some /\ Cardinality({i \in DOMAIN conn : conn[i] = ";"}) + 1 # 3) =>
        /\ ~svc.val.ok
        /\ DOMAIN svc.val = {"ok", "err"}
        /\ svc.val.err.kind = "InvalidInput"
        /\ ~call.some

\* four fields, the first three of them a valid connection string, were rejected
C9_Witness ==
    /\ svc.some
    /\ \E name \in HubNames, policy \in PolicyNames, key \in ValidKeys :
          conn = Join(<<HostNameField(name), SharedAccessKeyNameField(policy),
                        SharedAccessKeyField(key), <<>> >>)
    /\ ~svc.val.ok

\* C10: for HostName=<name>.azure-devices.net;SharedAccessKeyName=<kn>;
\* SharedAccessKey=<key> with <key> valid base64, from_connection_string
\* succeeds, the credential's iothub_name is <name>, and the key handed to the
\* signer is <key> with its trailing '=' padding.
C10_WellFormedSucceeds ==
    svc.some =>
        \A name \in HubNames, policy \in PolicyNames, key \in ValidKeys :
            conn = Join(<<HostNameField(name), SharedAccessKeyNameField(policy),
                          SharedAccessKeyField(key)>>)
            => /\ svc.val.ok
               /\ svc.val.val.iothub_name = name
               /\ call.some
               /\ call.val.iothub_name = name
               /\ call.val.private_key = key

\* the connection string of the test, with a key that ends in padding, was accepted
C10_Witness ==
    /\ svc.some
    /\ conn = Join(<<HostNameField(<<"c", "o", "o", "l", "-", "i", "o", "t", "-", "h", "u", "b">>),
                     SharedAccessKeyNameField(S_iothubowner),
                     SharedAccessKeyField(<<"Y", "Q", "=", "=">>)>>)
    /\ svc.val.ok

\* the semicolon-separated fields of the connection string
ConnFields == Split(conn, ";")

\* C11: a 3-field connection string in which no field is a SharedAccessKey=
\* field fails with the invalid-connection-string error; a
\* SharedAccessKeyName= field does not count as the key field.
C11_NoKeyFieldFails ==
    (/\ svc.some
     /\ Len(ConnFields) = 3
     /\ \A i \in 1..3 : ~Contains(ConnFields[i], S_SharedAccessKeyEq)) =>
        /\ ~svc.val.ok
        /\ DOMAIN svc.val = {"ok", "err"}
        /\ svc.val.err.kind = "InvalidInput"

\* the HostName fields the test calls incorrect: an extra '=' after HostName=,
\* and a value without the .azure-devices.net suffix
IncorrectHostNameFields ==
    {S_HostNameEq \o <<"=">> \o HostNameValue(<<"c", "o", "o", "l", "-", "i", "o", "t", "-", "h", "u", "b">>),
     S_HostNameEq \o <<"c", "o", "o", "l", "-", "i", "o", "t", "-", "h", "u", "b", ".", "a", "z", "u", "r", "e", "-">>}

\* C12: from_connection_string returns an error whenever the HostName field
\* is incorrect (an extra '=' after HostName=, or no .azure-devices.net
\* suffix), the other two fields being valid.
C12_IncorrectHostNameFails ==
    svc.some =>
        \A host \in IncorrectHostNameFields, policy \in PolicyNames, key \in ValidKeys :
            conn = Join(<<host, SharedAccessKeyNameField(policy), SharedAccessKeyField(key)>>)
            => ~svc.val.ok

\* the orders in which three fields can be written
Permutations3 == {p \in [1..3 -> 1..3] : \A i, j \in 1..3 : p[i] = p[j] => i = j}

\* C13: parsing is order-independent: for every permutation of the fields
\* HostName, SharedAccessKeyName, SharedAccessKey of a valid connection
\* string the outcome is success with the same resource name and the same key.
C13_OrderIndependent ==
    svc.some =>
        \A name \in HubNames, policy \in PolicyNames, key \in ValidKeys :
            \A p \in Permutations3 :
                LET fields == <<HostNameField(name), SharedAccessKeyNameField(policy),
                                SharedAccessKeyField(key)>>
                IN conn = Join([i \in 1..3 |-> fields[p[i]]])
                   => /\ svc.val.ok
                      /\ svc.val.val.iothub_name = name
                      /\ call.some
                      /\ call.val.iothub_name = name
                      /\ call.val.private_key = key

\* a connection string with the key first and the host name last was accepted
C13_Witness ==
    /\ svc.some
    /\ \E name \in HubNames, policy \in PolicyNames, key \in ValidKeys :
          /\ conn = Join(<<SharedAccessKeyField(key), SharedAccessKeyNameField(policy),
                           HostNameField(name)>>)
          /\ svc.val.ok
          /\ svc.val.val.iothub_name = name

\* a field that contains HostName= with .azure-devices.net before its first '='
SuffixBeforeEquals(val) ==
    /\ Contains(val, S_HostNameEq)
    /\ Find(val, S_AzureDevicesNet).some
    /\ Find(val, S_AzureDevicesNet).val < Find(val, <<"=">>).val

\* C29: from_connection_string is total: it returns for every input string and
\* never aborts; a 3-field input with a HostName= field in which
\* .azure-devices.net occurs before the field's first '=' is rejected with an
\* error.
C29_ConnectionStringTotal ==
    svc.some =>
        /\ svc.val # Panicked
        /\ (/\ Len(ConnFields) = 3
            /\ \E i \in 1..3 : SuffixBeforeEquals(ConnFields[i]))
           => /\ ~svc.val.ok
              /\ "err" \in DOMAIN svc.val

----------------------------------------------------------------------------
(* SpecSign: the two signing constructors, from_private_key on a name and a
   key and from_connection_string on a well-formed connection string, over
   valid, invalid and empty keys, ttls on both sides of zero and two clock
   readings *)

\* not base64: a character outside the alphabet, and a single left-over symbol
InvalidKeys == {<<"a", "!", "b">>, <<"Y">>}
SignKeys == ValidKeys \cup InvalidKeys \cup {<<>>}
Ttls == {3600, 1, 0, -1, -3600}
Nows == {1600000000, 1600003600}

InitSign ==
    /\ mb = EdgeModuleBuilderNew
    /\ mres = None
    /\ builder = ModulesContentBuilderNew
    /\ adds = <<>>
    /\ result = None
    /\ manifest = None
    /\ wire = None
    /\ decoded = None
    /\ edits = 0
    /\ \E n \in HubNames, policy \in PolicyNames, k \in SignKeys :
          conn = Join(<<HostNameField(n), SharedAccessKeyNameField(policy),
                        SharedAccessKeyField(k)>>)
    /\ ttl \in Ttls
    /\ now \in Nows
    /\ svc = None
    /\ call = None
    /\ replies = <<>>
    /\ returned = <<>>
    /\ given_token = IdleConn
    /\ twin = None
    /\ patch = None
    /\ manager = None
    /\ method = None
    /\ query_builder = None
    /\ query = None
    /\ sent = <<>>
    /\ hub_name \in HubNames
    /\ hub_key \in SignKeys

NextSign ==
    \/ IoTHubService_from_private_key
    \/ IoTHubService_from_connection_string

SpecSign == InitSign /\ [][NextSign]_vars

----------------------------------------------------------------------------
(* Properties of the signer, checked under SpecSign *)

\* url::form_urlencoded::parse of one name or value: '+' is a space, %XX is
\* the byte it names
RECURSIVE percent_decode(_)
percent_decode(s) ==
    IF s = <<>> THEN <<>>
    ELSE IF Head(s) = "%" /\ Len(s) >= 3
         THEN <<CHOOSE c \in DOMAIN PercentEncoded : PercentEncoded[c] = SubSeq(s, 1, 3)>>
              \o percent_decode(SubSeq(s, 4, Len(s)))
    ELSE IF Head(s) = "+" THEN <<" ">> \o percent_decode(Tail(s))
    ELSE <<Head(s)>> \o percent_decode(Tail(s))

\* the number a decimal text stands for
RECURSIVE ParseNat(_)
ParseNat(s) ==
    IF s = <<>> THEN 0
    ELSE 10 * ParseNat(SubSeq(s, 1, Len(s) - 1))
         + (CHOOSE d \in 0..9 : Digits[d + 1] = s[Len(s)])
ParseInt(s) == IF s # <<>> /\ Head(s) = "-" THEN 0 - ParseNat(Tail(s)) ELSE ParseNat(s)

\* the constructor reached the signer, with these arguments
Signed == svc.some /\ call.some
\* the call was from_connection_string on a string that names another hub or
\* key than the arguments of from_private_key
SignedFromConnectionString ==
    Signed /\ (call.val.iothub_name # hub_name \/ call.val.private_key # hub_key)
SignedFromPrivateKey ==
    Signed /\ call.val.iothub_name = hub_name /\ call.val.private_key = hub_key
           /\ conn # Join(<<HostNameField(hub_name), SharedAccessKeyNameField(S_iothubowner),
                            SharedAccessKeyField(hub_key)>>)
           /\ conn # Join(<<HostNameField(hub_name), SharedAccessKeyNameField(<<"s", "e", "r", "v", "i", "c", "e">>),
                            SharedAccessKeyField(hub_key)>>)
\* the value of the pair written i-th into the token
PairName(i) == svc.val.val.sas_token.encoded[i][1]
PairValue(i) == svc.val.val.sas_token.encoded[i][2]

C15_EmptyKeyFails ==
    (Signed /\ call.val.private_key = <<>>) => ~svc.val.ok

\* C16: when the private key is not valid base64 the signer fails with an
\* encoding error, and from_private_key and from_connection_string hand that
\* error on: the outcome is the error alone, no credential comes with it.
C16_InvalidBase64Fails ==
    (Signed /\ call.val.private_key \in InvalidKeys) =>
        /\ ~svc.val.ok
        /\ DOMAIN svc.val = {"ok", "err"}
        /\ svc.val.err.kind = "DecodeError"

\* from_connection_string handed on the error of a key with a character
\* outside the alphabet
C16_Witness ==
    /\ SignedFromConnectionString
    /\ call.val.private_key = <<"a", "!", "b">>
    /\ ~svc.val.ok

----------------------------------------------------------------------------
(* DesiredTwinBuilder (twin.rs) *)

DesiredTwinBuilderNew == [desired_properties |-> None, desired_tags |-> EmptyMap]

add_tag(b, tag_name, tag_value) ==
    [b EXCEPT !.desired_tags = MapInsert(b.desired_tags, tag_name, tag_value)]

properties(b, desired_properties) == [b EXCEPT !.desired_properties = Some(desired_properties)]

\* Option::unwrap_or(json!({}))
unwrap_or_empty_object(o) == IF o.some THEN o.val ELSE JObj(EmptyMap)

\* build: the json! literal of the contents, with its keys as they are written
DesiredTwinBuilderBuild(b) ==
    [contents |->
        JObj(Field("propeties", JObj(Field("desired", unwrap_or_empty_object(b.desired_properties))))
             @@ Field("tags", SerMap(b.desired_tags, SerString)))]

TagNames == {"TagName", "AnotherTag", "ThirdTag"}
TagValues == {"TagValue", "AnotherValue"}
DesiredProperties == {JObj(EmptyMap), JObj(Field("key", JStr("value"))), JNull}

DesiredTwinBuilder_add_tag ==
    /\ twin.some
    /\ \E tag_name \in TagNames, tag_value \in TagValues :
          twin' = Some(add_tag(twin.val, tag_name, tag_value))
    /\ UNCHANGED <<mb, mres, builder, adds, result, manifest, wire, decoded, edits, conn, ttl, now, svc, call, hub_name, hub_key, given_token, patch, manager, method, query_builder, query, sent, replies, returned>>

DesiredTwinBuilder_properties ==
    /\ twin.some
    /\ \E desired_properties \in DesiredProperties :
          twin' = Some(properties(twin.val, desired_properties))
    /\ UNCHANGED <<mb, mres, builder, adds, result, manifest, wire, decoded, edits, conn, ttl, now, svc, call, hub_name, hub_key, given_token, patch, manager, method, query_builder, query, sent, replies, returned>>

\* build takes the builder by value
DesiredTwinBuilder_build ==
    /\ twin.some
    /\ patch' = Some(DesiredTwinBuilderBuild(twin.val))
    /\ twin' = None
    /\ UNCHANGED <<mb, mres, builder, adds, result, manifest, wire, decoded, edits, conn, ttl, now, svc, call, hub_name, hub_key, given_token, manager, method, query_builder, query, sent, replies, returned>>

----------------------------------------------------------------------------
(* SpecTwin: DesiredTwinBuilder::new(), any setters, then build *)

InitTwin ==
    /\ mb = EdgeModuleBuilderNew
    /\ mres = None
    /\ builder = ModulesContentBuilderNew
    /\ adds = <<>>
    /\ result = None
    /\ manifest = None
    /\ wire = None
    /\ decoded = None
    /\ edits = 0
    /\ conn = IdleConn
    /\ ttl = 0
    /\ now = 0
    /\ svc = None
    /\ call = None
    /\ replies = <<>>
    /\ returned = <<>>
    /\ hub_name = IdleConn
    /\ hub_key = IdleConn
    /\ given_token = IdleConn
    /\ twin = Some(DesiredTwinBuilderNew)
    /\ patch = None
    /\ manager = None
    /\ method = None
    /\ query_builder = None
    /\ query = None
    /\ sent = <<>>

NextTwin ==
    \/ DesiredTwinBuilder_add_tag
    \/ DesiredTwinBuilder_properties
    \/ DesiredTwinBuilder_build

SpecTwin == InitTwin /\ [][NextTwin]_vars

\* C20: DesiredTwinBuilder.build always succeeds and gives a document with
\* exactly the two top-level keys "properties" and "tags"; properties.desired
\* is the JSON given to properties(), or {} when none was given, and tags is
\* the map of the tags added, or {} when none was.
C20_DesiredTwinDocument ==
    patch.some =>
        /\ patch.val.contents.t = "obj"
        /\ DOMAIN patch.val.contents.v = {"properties", "tags"}
        /\ patch.val.contents.v["properties"].t = "obj"
        /\ DOMAIN patch.val.contents.v["properties"].v = {"desired"}
        /\ patch.val.contents.v["properties"].v["desired"] \in DesiredProperties
        /\ patch.val.contents.v["tags"].t = "obj"
        /\ DOMAIN patch.val.contents.v["tags"].v \subseteq TagNames
        /\ \A tag \in DOMAIN patch.val.contents.v["tags"].v :
              patch.val.contents.v["tags"].v[tag].t = "str"

----------------------------------------------------------------------------
(* The facade: IoTHubService and the handles it gives out (iothub.rs,
   twin.rs, directmethod.rs, query.rs).  A handle holds a shared reference to
   the service; the borrow keeps the service from changing while the handle
   lives, so the handle is modelled with the value of the service in it. *)

API_VERSION == "2020-03-13"

\* both arguments are stored as they are given
from_sas_token(iothub_name, sas_token) == [iothub_name |-> iothub_name, sas_token |-> sas_token]

\* the constructor returns Self; it is kept as Ok(Self) next to the outcomes
\* of the two signing constructors
IoTHubService_from_sas_token ==
    /\ ~svc.some
    /\ svc' = Some(Ok(from_sas_token(hub_name, given_token)))
    /\ UNCHANGED <<mb, mres, builder, adds, result, manifest, wire, decoded, edits, conn, ttl, now, call, hub_name, hub_key, given_token, twin, patch, manager, method, query_builder, query, sent, replies, returned>>

\* Body::empty() and Body::from(serde_json::to_string(..)?)
BodyEmpty == None
BodyFrom(text) == Some(text.val)

TwinManagerNew(iothub_service) == [iothub_service |-> iothub_service]

\* mutant: the request is sent without the Authorization header
get_twin_NoAuthorization(self, uri) ==
    [uri |-> uri,
     method |-> "GET",
     headers |-> "Content-Type" :> "application/json",
     body |-> BodyEmpty]

\* the request of TwinManager::get_twin
get_twin(self, uri) ==
    [uri |-> uri,
     method |-> "GET",
     headers |-> ("Authorization" :> self.iothub_service.sas_token)
                 @@ ("Content-Type" :> "application/json"),
     body |-> BodyEmpty]

\* the request of TwinManager::update_twin
update_twin(self, uri, http_method, desired_twin) ==
    [uri |-> uri,
     method |-> http_method,
     headers |-> ("Authorization" :> self.iothub_service.sas_token)
                 @@ ("Content-Type" :> "application/json"),
     body |-> BodyFrom(to_string(desired_twin.contents))]

DeviceTwinUri(self, device_id) ==
    <<"https://", self.iothub_service.iothub_name, ".azure-devices.net/twins/", device_id,
      "?api-version=", API_VERSION>>
ModuleTwinUri(self, device_id, module_id) ==
    <<"https://", self.iothub_service.iothub_name, ".azure-devices.net/twins/", device_id,
      "/modules/", module_id, "?api-version=", API_VERSION>>

get_device_twin(self, device_id) == get_twin(self, DeviceTwinUri(self, device_id))
get_module_twin(self, device_id, module_id) ==
    get_twin(self, ModuleTwinUri(self, device_id, module_id))
update_device_twin(self, device_id, desired_twin) ==
    update_twin(self, DeviceTwinUri(self, device_id), "PATCH", desired_twin)
update_module_twin(self, device_id, module_id, desired_twin) ==
    update_twin(self, ModuleTwinUri(self, device_id, module_id), "PATCH", desired_twin)
replace_device_twin(self, device_id, desired_twin) ==
    update_twin(self, DeviceTwinUri(self, device_id), "PUT", desired_twin)
replace_module_twin(self, device_id, module_id, desired_twin) ==
    update_twin(self, ModuleTwinUri(self, device_id, module_id), "PUT", desired_twin)

DirectMethodNew(iothub_service, device_id, module_id, method_name, response_time_out, connect_time_out) ==
    [iothub_service |-> iothub_service,
     device_id |-> device_id,
     module_id |-> module_id,
     method_name |-> method_name,
     connect_time_out |-> connect_time_out,
     response_time_out |-> response_time_out]

\* the facade hands its two timeouts to DirectMethod::new in the order
\* connect, response
create_device_method(self, device_id, method_name, response_time_out, connect_time_out) ==
    DirectMethodNew(self, device_id, None, method_name, connect_time_out, response_time_out)
create_module_method(self, device_id, module_id, method_name, response_time_out, connect_time_out) ==
    DirectMethodNew(self, device_id, Some(module_id), method_name,
                    connect_time_out, response_time_out)

\* the request of DirectMethod::invoke_method
invoke_method(self, uri, payload) ==
    LET json_payload ==
            JObj(Field("connectTimeoutInSeconds", JNum(self.connect_time_out))
                 @@ Field("methodName", JStr(self.method_name))
                 @@ Field("payload", payload)
                 @@ Field("responseTimeoutInSeconds", JNum(self.response_time_out)))
    IN [uri |-> uri,
        method |-> "POST",
        headers |-> ("Authorization" :> self.iothub_service.sas_token)
                    @@ ("Content-Type" :> "application/json"),
        body |-> BodyFrom(to_string(json_payload))]

invoke(self, payload) ==
    IF self.module_id.some
    THEN invoke_method(self, <<"https://", self.iothub_service.iothub_name,
                                ".azure-devices.net/twins/", self.device_id, "/modules/",
                                self.module_id.val, "/methods?api-version=", API_VERSION>>,
                       payload)
    ELSE invoke_method(self, <<"https://", self.iothub_service.iothub_name,
                                ".azure-devices.net/twins/", self.device_id,
                                "/methods?api-version=", API_VERSION>>,
                       payload)

QueryBuilderNew(iothub_service) ==
    [iothub_service |-> iothub_service, select |-> None, from |-> None,
     and_where |-> None, group_by |-> None]

S_SELECT == <<"S", "E", "L", "E", "C", "T", " ">>
S_FROM == <<" ", "F", "R", "O", "M", " ">>
S_WHERE == <<" ", "W", "H", "E", "R", "E", " ">>
S_GROUP_BY == <<" ", "G", "R", "O", "U", "P", " ", "B", "Y", " ">>

\* a build that writes WHERE before FROM
QueryBuilderBuild_WhereFirst(b) ==
    LET q0 == <<>>
        q1 == IF b.select.some THEN q0 \o S_SELECT \o b.select.val ELSE q0
        q2 == IF b.and_where.some THEN q1 \o S_WHERE \o b.and_where.val ELSE q1
        q3 == IF b.from.some THEN q2 \o S_FROM \o b.from.val ELSE q2
        q4 == IF b.group_by.some THEN q3 \o S_GROUP_BY \o b.group_by.val ELSE q3
    IN [iothub_service |-> b.iothub_service, query |-> q4]

\* [query, keyword, fragment].concat() for every clause that was set
QueryBuilderBuild(b) ==
    LET q0 == <<>>
        q1 == IF b.select.some THEN q0 \o S_SELECT \o b.select.val ELSE q0
        q2 == IF b.from.some THEN q1 \o S_FROM \o b.from.val ELSE q1
        q3 == IF b.and_where.some THEN q2 \o S_WHERE \o b.and_where.val ELSE q2
        q4 == IF b.group_by.some THEN q3 \o S_GROUP_BY \o b.group_by.val ELSE q3
    IN [iothub_service |-> b.iothub_service, query |-> q4]

\* the request of Query::execute
execute(self) ==
    LET uri == <<"https://", self.iothub_service.iothub_name,
                 ".azure-devices.net/devices/query?api-version=", API_VERSION>>
        json_payload == JObj(Field("query", JStr(self.query)))
    IN [uri |-> uri,
        method |-> "POST",
        headers |-> ("Authorization" :> self.iothub_service.sas_token)
                    @@ ("Content-Type" :> "application/json"),
        body |-> BodyFrom(to_string(json_payload))]

\* the request of IoTHubService::apply_modules_configuration
apply_modules_configuration(self, device_id, modules_content) ==
    LET uri == <<"https://", self.iothub_name, ".azure-devices.net/devices/", device_id,
                 "/applyConfigurationContent?api-version=", API_VERSION>>
        json_payload == JObj(Field("modulesContent", SerModulesContent(modules_content)))
    IN [uri |-> uri,
        method |-> "POST",
        headers |-> ("Authorization" :> self.sas_token)
                    @@ ("Content-Type" :> "application/json"),
        body |-> BodyFrom(to_string(json_payload))]

----------------------------------------------------------------------------
(* The error bodies of the service.  The text of a JSON object is kept as
   the list of its members in the order they are written, so that a name can
   occur twice; a String that is no JSON text is kept apart from one that is. *)

\* a String holding the text of a JSON object with the given members
ObjectText(members) == [members_of |-> members]
Member(key, value) == [key |-> key, value |-> value]
\* a String that is not a JSON text
Raw(chars) == [raw |-> chars]

DuplicateField(name) == [type |-> "duplicate field", field |-> name]
UnknownField(name) == [type |-> "unknown field", field |-> name]

\* serde_json::from_str::<Value> on a String
from_str(text) ==
    IF "text_of" \in DOMAIN text THEN Ok(text.text_of)
    ELSE IF "members_of" \in DOMAIN text
         THEN Ok(JObj([k \in {text.members_of[i].key : i \in DOMAIN text.members_of} |->
                          text.members_of[CHOOSE i \in DOMAIN text.members_of :
                              /\ text.members_of[i].key = k
                              /\ \A j \in DOMAIN text.members_of :
                                     text.members_of[j].key = k => j <= i].value]))
    ELSE Err([type |-> "syntax"])

\* a message struct whose info may be left out
DeIoTHubErrorMessage_InfoOptional(j) ==
    IF j.t # "obj" THEN Err(InvalidType("struct IoTHubErrorMessage"))
    ELSE IF ~Has(j, "errorCode") THEN Err(MissingField("errorCode"))
    ELSE IF ~Has(j, "trackingId") THEN Err(MissingField("trackingId"))
    ELSE IF ~Has(j, "message") THEN Err(MissingField("message"))
    ELSE IF ~Has(j, "timestampUtc") THEN Err(MissingField("timestampUtc"))
    ELSE LET error_code == DeU64(j.v["errorCode"])
             tracking_id == DeString(j.v["trackingId"])
             message == DeString(j.v["message"])
             timestamp_utc == DeString(j.v["timestampUtc"])
             rs == <<error_code, tracking_id, message, timestamp_utc>>
         IN IF ~AllOk(rs) THEN FirstErr(rs)
            ELSE Ok([error_code |-> error_code.val,
                     tracking_id |-> tracking_id.val,
                     message |-> message.val,
                     info |-> IF Has(j, "info") THEN j.v["info"] ELSE JNull,
                     timestamp_utc |-> timestamp_utc.val])

\* #[derive(Deserialize)] #[serde(rename_all = "camelCase")]: all five fields
\* are required, info is any JSON value
DeIoTHubErrorMessage(j) ==
    IF j.t # "obj" THEN Err(InvalidType("struct IoTHubErrorMessage"))
    ELSE IF ~Has(j, "errorCode") THEN Err(MissingField("errorCode"))
    ELSE IF ~Has(j, "trackingId") THEN Err(MissingField("trackingId"))
    ELSE IF ~Has(j, "message") THEN Err(MissingField("message"))
    ELSE IF ~Has(j, "info") THEN Err(MissingField("info"))
    ELSE IF ~Has(j, "timestampUtc") THEN Err(MissingField("timestampUtc"))
    ELSE LET error_code == DeU64(j.v["errorCode"])
             tracking_id == DeString(j.v["trackingId"])
             message == DeString(j.v["message"])
             timestamp_utc == DeString(j.v["timestampUtc"])
             rs == <<error_code, tracking_id, message, timestamp_utc>>
         IN IF ~AllOk(rs) THEN FirstErr(rs)
            ELSE Ok([error_code |-> error_code.val,
                     tracking_id |-> tracking_id.val,
                     message |-> message.val,
                     info |-> j.v["info"],
                     timestamp_utc |-> timestamp_utc.val])

\* serde_json::from_str::<IoTHubErrorMessage> on the String of the Message
\* member
MessageFromStr(text) ==
    LET value == from_str(text)
    IN IF ~value.ok THEN value ELSE DeIoTHubErrorMessage(value.val)

\* the loop of visit_map from member i on: message and exception_message are
\* the two Options filled so far
RECURSIVE visit_map(_, _, _, _)
visit_map(members, i, message, exception_message) ==
    IF i > Len(members)
    THEN IF ~message.some THEN Err(MissingField("Message"))
         ELSE IF ~exception_message.some THEN Err(MissingField("ExceptionMessage"))
         ELSE Ok([message |-> message.val, exception_message |-> exception_message.val])
    ELSE LET key == members[i].key
             value == members[i].value
         IN IF key = "Message"
            THEN IF message.some THEN Err(DuplicateField("Message"))
                 ELSE IF value.t # "str" THEN Err(InvalidType("a string"))
                 ELSE LET parsed == MessageFromStr(value.v)
                      IN IF ~parsed.ok THEN Err(InvalidType("stringified json"))
                         ELSE visit_map(members, i + 1, Some(parsed.val), exception_message)
            ELSE IF key = "ExceptionMessage"
            THEN IF exception_message.some THEN Err(DuplicateField("ExceptionMessage"))
                 ELSE IF value.t # "str" THEN Err(InvalidType("a string"))
                 ELSE visit_map(members, i + 1, message, Some(value.v))
            ELSE Err(UnknownField(key))

\* the members of a document kept as a map, written in some order
RECURSIVE MembersOf(_)
MembersOf(f) ==
    IF DOMAIN f = {} THEN <<>>
    ELSE LET key == CHOOSE k \in DOMAIN f : TRUE
         IN <<Member(key, f[key])>> \o MembersOf(MapRemove(f, key))

\* serde_json::from_str::<IoTHubError>: deserialize_struct hands a JSON object
\* to visit_map and refuses everything else
DeIoTHubError(text) ==
    IF "members_of" \in DOMAIN text THEN visit_map(text.members_of, 1, None, None)
    ELSE IF "text_of" \notin DOMAIN text THEN Err([type |-> "syntax"])
    ELSE IF text.text_of.t # "obj" THEN Err(InvalidType("struct DirectMethodError"))
    ELSE visit_map(MembersOf(text.text_of.v), 1, None, None)

\* DirectMethodError and DirectMethodErrorMessage repeat the code of
\* IoTHubError and IoTHubErrorMessage
DeDirectMethodError(text) ==
    IF "members_of" \in DOMAIN text THEN visit_map(text.members_of, 1, None, None)
    ELSE IF "text_of" \notin DOMAIN text THEN Err([type |-> "syntax"])
    ELSE IF text.text_of.t # "obj" THEN Err(InvalidType("struct DirectMethodError"))
    ELSE visit_map(MembersOf(text.text_of.v), 1, None, None)

----------------------------------------------------------------------------
(* What an operation does with the reply to its request.  A reply is the
   failure of client.request, or a response with a status and a body; reading
   the body can fail as well.  A body is the text of a document, the text of
   an object kept as its members, a text that is no JSON, or bytes that are
   no UTF-8. *)

JBool(b) == [t |-> "bool", v |-> b]
JArr(items) == [t |-> "arr", v |-> items]
NotUtf8 == [bytes |-> "not utf-8"]
Hyper == [type |-> "hyper::Error"]
Syntax == [type |-> "syntax"]
Custom(msg) == [type |-> "custom", msg |-> msg]
Unit == <<>>
Response(status, body) == Ok([status |-> status, body |-> body])

\* StatusCode::is_success
is_success(status) == 200 <= status /\ status < 300

\* the JSON value a derived struct with the given field names is read from:
\* a name of the struct written twice is refused
StructValue(text, names) ==
    IF "text_of" \in DOMAIN text THEN Ok(text.text_of)
    ELSE IF "members_of" \in DOMAIN text
    THEN LET twice == {key \in names :
                          Cardinality({i \in DOMAIN text.members_of :
                                           text.members_of[i].key = key}) > 1}
         IN IF twice # {} THEN Err(DuplicateField(CHOOSE key \in twice : TRUE))
            ELSE from_str(text)
    ELSE Err(Syntax)

DeI64(j) == IF j.t = "num" THEN Ok(j.v) ELSE Err(InvalidType("i64"))
DeBool(j) == IF j.t = "bool" THEN Ok(j.v) ELSE Err(InvalidType("a boolean"))
DeOptionVecString(j) ==
    IF j.t = "null" THEN Ok(None)
    ELSE IF j.t = "arr" /\ \A i \in DOMAIN j.v : j.v[i].t = "str"
         THEN Ok(Some([i \in DOMAIN j.v |-> j.v[i].v]))
         ELSE Err(InvalidType("a sequence"))

\* the hand-written Deserialize of the three enums: a String, then a match
DeAuthenticationType(j) ==
    IF j.t # "str" THEN Err(InvalidType("a string"))
    ELSE IF j.v \in {"certificate", "sas", "Authority", "selfSigned", "none"} THEN Ok(j.v)
    ELSE Err(Custom("Expected status to be 'certificate','sas','Authority','selfSigned' or 'none'"))

DeConnectionState(j) ==
    IF j.t # "str" THEN Err(InvalidType("a string"))
    ELSE IF j.v \in {"Connected", "Disconnected"} THEN Ok(j.v)
    ELSE Err(Custom("Expected status to be 'Connected' or 'Disconnected'"))

DeStatus(j) ==
    IF j.t # "str" THEN Err(InvalidType("a string"))
    ELSE IF j.v \in {"disabled", "enabled"} THEN Ok(j.v)
    ELSE Err(Custom("Expected status to be enabled or disabled"))

DeDeviceCapabilities(j) ==
    IF j.t # "obj" THEN Err(InvalidType("struct DeviceCapabilities"))
    ELSE IF ~Has(j, "iotEdge") THEN Err(MissingField("iotEdge"))
    ELSE LET iotedge == DeBool(j.v["iotEdge"])
         IN IF ~iotedge.ok THEN iotedge ELSE Ok([iotedge |-> iotedge.val])

\* no rename: the two optional fields are read under their Rust names
DeX509ThumbPrint(j) ==
    IF j.t # "obj" THEN Err(InvalidType("struct X509ThumbPrint"))
    ELSE LET primary_thumbprint == IF Has(j, "primary_thumbprint")
                                   THEN DeOptionString(j.v["primary_thumbprint"]) ELSE Ok(None)
             secondary_thumbprint == IF Has(j, "secondary_thumbprint")
                                     THEN DeOptionString(j.v["secondary_thumbprint"]) ELSE Ok(None)
             rs == <<primary_thumbprint, secondary_thumbprint>>
         IN IF ~AllOk(rs) THEN FirstErr(rs)
            ELSE Ok([primary_thumbprint |-> primary_thumbprint.val,
                     secondary_thumbprint |-> secondary_thumbprint.val])

DeTwinProperties(j) ==
    IF j.t # "obj" THEN Err(InvalidType("struct TwinProperties"))
    ELSE IF ~Has(j, "desired") THEN Err(MissingField("desired"))
    ELSE IF ~Has(j, "reported") THEN Err(MissingField("reported"))
    ELSE Ok([desired |-> j.v["desired"], reported |-> j.v["reported"]])

DeviceTwinRequired ==
    <<"authenticationType", "capabilities", "cloudToDeviceMessageCount", "connectionState",
      "deviceEtag", "deviceId", "etag", "lastActivityTime", "properties", "status",
      "statusUpdateTime", "tags", "version", "x509Thumbprint">>

DeDeviceTwin(j) ==
    IF j.t # "obj" THEN Err(InvalidType("struct DeviceTwin"))
    ELSE IF \E i \in DOMAIN DeviceTwinRequired : ~Has(j, DeviceTwinRequired[i])
    THEN Err(MissingField(DeviceTwinRequired[CHOOSE i \in DOMAIN DeviceTwinRequired :
                 /\ ~Has(j, DeviceTwinRequired[i])
                 /\ \A k \in 1..(i - 1) : Has(j, DeviceTwinRequired[k])]))
    ELSE LET authentication_type == DeAuthenticationType(j.v["authenticationType"])
             capabilities == DeDeviceCapabilities(j.v["capabilities"])
             cloud_to_device_message_count == DeI64(j.v["cloudToDeviceMessageCount"])
             connection_state == DeConnectionState(j.v["connectionState"])
             device_etag == DeString(j.v["deviceEtag"])
             device_id == DeString(j.v["deviceId"])
             device_scope == IF Has(j, "deviceScope")
                             THEN DeOptionString(j.v["deviceScope"]) ELSE Ok(None)
             etag == DeString(j.v["etag"])
             last_activity_time == DeString(j.v["lastActivityTime"])
             parent_scopes == IF Has(j, "parentScopes")
                              THEN DeOptionVecString(j.v["parentScopes"]) ELSE Ok(None)
             twin_properties == DeTwinProperties(j.v["properties"])
             status == DeStatus(j.v["status"])
             status_reason == IF Has(j, "statusReason")
                              THEN DeOptionString(j.v["statusReason"]) ELSE Ok(None)
             status_update_time == DeString(j.v["statusUpdateTime"])
             tags == DeMap(j.v["tags"], DeString)
             version == DeI64(j.v["version"])
             x509_thumbprint == DeX509ThumbPrint(j.v["x509Thumbprint"])
             rs == <<authentication_type, capabilities, cloud_to_device_message_count,
                     connection_state, device_etag, device_id, device_scope, etag,
                     last_activity_time, parent_scopes, twin_properties, status, status_reason,
                     status_update_time, tags, version, x509_thumbprint>>
         IN IF ~AllOk(rs) THEN FirstErr(rs)
            ELSE Ok([authentication_type |-> authentication_type.val,
                     capabilities |-> capabilities.val,
                     cloud_to_device_message_count |-> cloud_to_device_message_count.val,
                     connection_state |-> connection_state.val,
                     device_etag |-> device_etag.val,
                     device_id |-> device_id.val,
                     device_scope |-> device_scope.val,
                     etag |-> etag.val,
                     last_activity_time |-> last_activity_time.val,
                     parent_scopes |-> parent_scopes.val,
                     properties |-> twin_properties.val,
                     status |-> status.val,
                     status_reason |-> status_reason.val,
                     status_update_time |-> status_update_time.val,
                     tags |-> tags.val,
                     version |-> version.val,
                     x509_thumbprint |-> x509_thumbprint.val])

ModuleTwinRequired ==
    <<"authenticationType", "cloudToDeviceMessageCount", "connectionState", "deviceEtag",
      "deviceId", "etag", "lastActivityTime", "moduleId", "properties", "status",
      "statusUpdateTime", "version", "x509Thumbprint">>

DeModuleTwin(j) ==
    IF j.t # "obj" THEN Err(InvalidType("struct ModuleTwin"))
    ELSE IF \E i \in DOMAIN ModuleTwinRequired : ~Has(j, ModuleTwinRequired[i])
    THEN Err(MissingField(ModuleTwinRequired[CHOOSE i \in DOMAIN ModuleTwinRequired :
                 /\ ~Has(j, ModuleTwinRequired[i])
                 /\ \A k \in 1..(i - 1) : Has(j, ModuleTwinRequired[k])]))
    ELSE LET authentication_type == DeAuthenticationType(j.v["authenticationType"])
             cloud_to_device_message_count == DeI64(j.v["cloudToDeviceMessageCount"])
             connection_state == DeConnectionState(j.v["connectionState"])
             device_etag == DeString(j.v["deviceEtag"])
             device_id == DeString(j.v["deviceId"])
             etag == DeString(j.v["etag"])
             last_activity_time == DeString(j.v["lastActivityTime"])
             module_id == DeString(j.v["moduleId"])
             twin_properties == DeTwinProperties(j.v["properties"])
             status == DeStatus(j.v["status"])
             status_update_time == DeString(j.v["statusUpdateTime"])
             version == DeI64(j.v["version"])
             x509_thumbprint == DeX509ThumbPrint(j.v["x509Thumbprint"])
             rs == <<authentication_type, cloud_to_device_message_count, connection_state,
                     device_etag, device_id, etag, last_activity_time, module_id,
                     twin_properties, status, status_update_time, version, x509_thumbprint>>
         IN IF ~AllOk(rs) THEN FirstErr(rs)
            ELSE Ok([authentication_type |-> authentication_type.val,
                     cloud_to_device_message_count |-> cloud_to_device_message_count.val,
                     connection_state |-> connection_state.val,
                     device_etag |-> device_etag.val,
                     device_id |-> device_id.val,
                     etag |-> etag.val,
                     last_activity_time |-> last_activity_time.val,
                     module_id |-> module_id.val,
                     properties |-> twin_properties.val,
                     status |-> status.val,
                     status_update_time |-> status_update_time.val,
                     version |-> version.val,
                     x509_thumbprint |-> x509_thumbprint.val])

\* all three fields are required Strings
DeTwinError(j) ==
    IF j.t # "obj" THEN Err(InvalidType("struct TwinError"))
    ELSE IF ~Has(j, "Message") THEN Err(MissingField("Message"))
    ELSE IF ~Has(j, "ExceptionMessage") THEN Err(MissingField("ExceptionMessage"))
    ELSE IF ~Has(j, "TrackingId") THEN Err(MissingField("TrackingId"))
    ELSE LET message == DeString(j.v["Message"])
             exception_message == DeString(j.v["ExceptionMessage"])
             tracking_id == DeString(j.v["TrackingId"])
             rs == <<message, exception_message, tracking_id>>
         IN IF ~AllOk(rs) THEN FirstErr(rs)
            ELSE Ok([message |-> message.val,
                     exception_message |-> exception_message.val,
                     tracking_id |-> tracking_id.val])

\* DirectMethodResponse<T> with T = serde_json::Value
DeDirectMethodResponse(j) ==
    IF j.t # "obj" THEN Err(InvalidType("struct DirectMethodResponse"))
    ELSE IF ~Has(j, "status") THEN Err(MissingField("status"))
    ELSE IF ~Has(j, "payload") THEN Err(MissingField("payload"))
    ELSE LET status == DeU64(j.v["status"])
         IN IF ~status.ok THEN status
            ELSE Ok([status |-> status.val, payload |-> j.v["payload"]])

\* serde_json::from_reader / from_slice of a body as the type T
from_reader(T, text) ==
    LET names == CASE T = "DeviceTwin" ->
                          {DeviceTwinRequired[i] : i \in DOMAIN DeviceTwinRequired}
                          \cup {"deviceScope", "parentScopes", "statusReason"}
                   [] T = "ModuleTwin" ->
                          {ModuleTwinRequired[i] : i \in DOMAIN ModuleTwinRequired}
                   [] T = "TwinError" -> {"Message", "ExceptionMessage", "TrackingId"}
                   [] T = "DirectMethodResponse" -> {"status", "payload"}
                   [] OTHER -> {}
        value == StructValue(text, names)
    IN IF ~value.ok THEN value
       ELSE CASE T = "DeviceTwin" -> DeDeviceTwin(value.val)
              [] T = "ModuleTwin" -> DeModuleTwin(value.val)
              [] T = "TwinError" -> DeTwinError(value.val)
              [] T = "DirectMethodResponse" -> DeDirectMethodResponse(value.val)
              [] OTHER -> value

\* TwinManager::get_twin from client.request(request).await on: the status
\* is not looked at
get_twin_result(T, reply) ==
    IF ~reply.ok THEN Err(Hyper)
    ELSE IF ~reply.val.body.ok THEN Err(Hyper)
    ELSE from_reader(T, reply.val.body.val)

\* TwinManager::update_twin from client.request(request).await on
update_twin_result(T, reply) ==
    IF ~reply.ok THEN Err(Hyper)
    ELSE IF ~is_success(reply.val.status)
    THEN IF ~reply.val.body.ok THEN Err(Hyper)
         ELSE LET twin_error == from_reader("TwinError", reply.val.body.val)
              IN IF ~twin_error.ok THEN twin_error
                 ELSE Err([type |-> "TwinError", error |-> twin_error.val])
    ELSE IF ~reply.val.body.ok THEN Err(Hyper)
    ELSE from_reader(T, reply.val.body.val)

\* DirectMethod::invoke_method from client.request(request).await on: reading
\* the body is unwrapped on both paths
invoke_method_result(reply) ==
    IF ~reply.ok THEN Err(Hyper)
    ELSE IF ~is_success(reply.val.status)
    THEN IF ~reply.val.body.ok THEN Panicked
         ELSE LET error == DeDirectMethodError(reply.val.body.val)
              IN IF ~error.ok THEN error
                 ELSE Err([type |-> "DirectMethodError", error |-> error.val])
    ELSE IF ~reply.val.body.ok THEN Panicked
    ELSE from_reader("DirectMethodResponse", reply.val.body.val)

\* Query::execute from client.request(request).await on: the status is not
\* looked at and every JSON document is a serde_json::Value
execute_result(reply) ==
    IF ~reply.ok THEN Err(Hyper)
    ELSE IF ~reply.val.body.ok THEN Err(Hyper)
    ELSE from_reader("Value", reply.val.body.val)

\* IoTHubService::apply_modules_configuration from client.request(request)
\* .await on: the body is read into a String that is dropped, and Ok(()) is
\* returned
apply_modules_configuration_result(reply) ==
    IF ~reply.ok THEN Err(Hyper)
    ELSE IF ~reply.val.body.ok THEN Err(Hyper)
    ELSE IF reply.val.status # 200 \/ reply.val.status # 204
    THEN IF "bytes" \in DOMAIN reply.val.body.val
         THEN Err([type |-> "io::Error"])
         ELSE Ok(Unit)
    ELSE Ok(Unit)

\* the result of the operation op on the reply to its request
Outcome(op, reply) ==
    CASE op \in {"get_device_twin"} -> get_twin_result("DeviceTwin", reply)
      [] op \in {"get_module_twin"} -> get_twin_result("ModuleTwin", reply)
      [] op \in {"update_device_twin", "replace_device_twin"} ->
             update_twin_result("DeviceTwin", reply)
      [] op \in {"update_module_twin", "replace_module_twin"} ->
             update_twin_result("ModuleTwin", reply)
      [] op \in {"invoke"} -> invoke_method_result(reply)
      [] op \in {"execute"} -> execute_result(reply)
      [] op \in {"apply_modules_configuration"} -> apply_modules_configuration_result(reply)

----------------------------------------------------------------------------
(* Actions of the facade.  The caller holds at most one handle of each kind
   and a request is a step that appends to sent. *)

\* most requests in one behaviour
MaxRequests == 2
\* most advances of the clock in one behaviour
MaxTicks == 1

DeviceIds == {"SomeDevice"}
MethodNames == {"GreatMethod"}
Payloads == {JObj(EmptyMap)}
SelectQueries == {<<"*">>}
FromQueries == {<<"d", "e", "v", "i", "c", "e", "s">>}

\* the service the caller holds, once a constructor has returned it
Service == svc.val.val
HasService == svc.some /\ svc.val.ok
CanSend == Len(sent) < MaxRequests /\ Len(sent) < Len(replies)

\* an operation that returns on the reply to the first request
Complete_FirstReply(rs, reps, i) ==
    [rs EXCEPT ![i].outcome = Some(Outcome(rs[i].op, reps[1]))]

\* the operation that sent request i returns on the reply to that request
Complete(rs, reps, i) ==
    [rs EXCEPT ![i].outcome = Some(Outcome(rs[i].op, reps[i]))]

\* an operation from its request to its result: the request goes to the
\* client, the reply to it comes back and the operation returns
Exchange(op, request) ==
    /\ sent' = Append(sent, request)
    /\ returned' = Complete(Append(returned, [op |-> op, outcome |-> None]), replies,
                            Len(sent) + 1)

\* time passes, by an hour
Tick ==
    /\ now + 3600 <= 1600000000 + MaxTicks * 3600
    /\ now' = now + 3600
    /\ UNCHANGED <<mb, mres, builder, adds, result, manifest, wire, decoded, edits, conn, ttl, svc, call, hub_name, hub_key, given_token, twin, patch, manager, method, query_builder, query, sent, replies, returned>>

IoTHubService_twin_manager ==
    /\ HasService
    /\ ~manager.some
    /\ manager' = Some(TwinManagerNew(Service))
    /\ UNCHANGED <<mb, mres, builder, adds, result, manifest, wire, decoded, edits, conn, ttl, now, svc, call, hub_name, hub_key, given_token, twin, patch, method, query_builder, query, sent, replies, returned>>

\* get_device_twin takes the manager by value
TwinManager_get_device_twin ==
    /\ manager.some
    /\ CanSend
    /\ \E device_id \in DeviceIds :
          Exchange("get_device_twin", get_device_twin(manager.val, device_id))
    /\ manager' = None
    /\ UNCHANGED <<mb, mres, builder, adds, result, manifest, wire, decoded, edits, conn, ttl, now, svc, call, hub_name, hub_key, given_token, twin, patch, method, query_builder, query, replies>>

TwinManager_get_module_twin ==
    /\ manager.some
    /\ CanSend
    /\ \E device_id \in DeviceIds, module_id \in {"SomeModule"} :
          Exchange("get_module_twin", get_module_twin(manager.val, device_id, module_id))
    /\ UNCHANGED <<mb, mres, builder, adds, result, manifest, wire, decoded, edits, conn, ttl, now, svc, call, hub_name, hub_key, given_token, twin, patch, manager, method, query_builder, query, replies>>

TwinManager_update_device_twin ==
    /\ manager.some
    /\ CanSend
    /\ \E device_id \in DeviceIds, desired_properties \in {JObj(EmptyMap)} :
          Exchange("update_device_twin", update_device_twin(manager.val, device_id,
                     DesiredTwinBuilderBuild(properties(DesiredTwinBuilderNew, desired_properties))))
    /\ UNCHANGED <<mb, mres, builder, adds, result, manifest, wire, decoded, edits, conn, ttl, now, svc, call, hub_name, hub_key, given_token, twin, patch, manager, method, query_builder, query, replies>>

TwinManager_update_module_twin ==
    /\ manager.some
    /\ CanSend
    /\ \E device_id \in DeviceIds, module_id \in {"SomeModule"}, desired_properties \in {JObj(EmptyMap)} :
          Exchange("update_module_twin", update_module_twin(manager.val, device_id, module_id,
                     DesiredTwinBuilderBuild(properties(DesiredTwinBuilderNew, desired_properties))))
    /\ UNCHANGED <<mb, mres, builder, adds, result, manifest, wire, decoded, edits, conn, ttl, now, svc, call, hub_name, hub_key, given_token, twin, patch, manager, method, query_builder, query, replies>>

\* replace_device_twin takes the manager by value
TwinManager_replace_device_twin ==
    /\ manager.some
    /\ CanSend
    /\ \E device_id \in DeviceIds, desired_properties \in {JObj(EmptyMap)} :
          Exchange("replace_device_twin", replace_device_twin(manager.val, device_id,
                     DesiredTwinBuilderBuild(properties(DesiredTwinBuilderNew, desired_properties))))
    /\ manager' = None
    /\ UNCHANGED <<mb, mres, builder, adds, result, manifest, wire, decoded, edits, conn, ttl, now, svc, call, hub_name, hub_key, given_token, twin, patch, method, query_builder, query, replies>>

TwinManager_replace_module_twin ==
    /\ manager.some
    /\ CanSend
    /\ \E device_id \in DeviceIds, module_id \in {"SomeModule"}, desired_properties \in {JObj(EmptyMap)} :
          Exchange("replace_module_twin", replace_module_twin(manager.val, device_id, module_id,
                     DesiredTwinBuilderBuild(properties(DesiredTwinBuilderNew, desired_properties))))
    /\ UNCHANGED <<mb, mres, builder, adds, result, manifest, wire, decoded, edits, conn, ttl, now, svc, call, hub_name, hub_key, given_token, twin, patch, manager, method, query_builder, query, replies>>

IoTHubService_create_device_method ==
    /\ HasService
    /\ ~method.some
    /\ \E device_id \in DeviceIds, method_name \in MethodNames :
          method' = Some(create_device_method(Service, device_id, method_name, 20, 10))
    /\ UNCHANGED <<mb, mres, builder, adds, result, manifest, wire, decoded, edits, conn, ttl, now, svc, call, hub_name, hub_key, given_token, twin, patch, manager, query_builder, query, sent, replies, returned>>

IoTHubService_create_module_method ==
    /\ HasService
    /\ ~method.some
    /\ \E device_id \in DeviceIds, module_id \in {"SomeModule"}, method_name \in MethodNames :
          method' = Some(create_module_method(Service, device_id, module_id, method_name, 20, 10))
    /\ UNCHANGED <<mb, mres, builder, adds, result, manifest, wire, decoded, edits, conn, ttl, now, svc, call, hub_name, hub_key, given_token, twin, patch, manager, query_builder, query, sent, replies, returned>>

DirectMethod_invoke ==
    /\ method.some
    /\ CanSend
    /\ \E payload \in Payloads : Exchange("invoke", invoke(method.val, payload))
    /\ UNCHANGED <<mb, mres, builder, adds, result, manifest, wire, decoded, edits, conn, ttl, now, svc, call, hub_name, hub_key, given_token, twin, patch, manager, method, query_builder, query, replies>>

IoTHubService_build_query ==
    /\ HasService
    /\ ~query_builder.some
    /\ ~query.some
    /\ query_builder' = Some(QueryBuilderNew(Service))
    /\ UNCHANGED <<mb, mres, builder, adds, result, manifest, wire, decoded, edits, conn, ttl, now, svc, call, hub_name, hub_key, given_token, twin, patch, manager, method, query, sent, replies, returned>>

QueryBuilder_select ==
    /\ query_builder.some
    /\ \E select_query \in SelectQueries :
          query_builder' = Some([query_builder.val EXCEPT !.select = Some(select_query)])
    /\ UNCHANGED <<mb, mres, builder, adds, result, manifest, wire, decoded, edits, conn, ttl, now, svc, call, hub_name, hub_key, given_token, twin, patch, manager, method, query, sent, replies, returned>>

QueryBuilder_from ==
    /\ query_builder.some
    /\ \E from_query \in FromQueries :
          query_builder' = Some([query_builder.val EXCEPT !.from = Some(from_query)])
    /\ UNCHANGED <<mb, mres, builder, adds, result, manifest, wire, decoded, edits, conn, ttl, now, svc, call, hub_name, hub_key, given_token, twin, patch, manager, method, query, sent, replies, returned>>

\* build takes the builder by value
QueryBuilder_build ==
    /\ query_builder.some
    /\ query' = Some(QueryBuilderBuild(query_builder.val))
    /\ query_builder' = None
    /\ UNCHANGED <<mb, mres, builder, adds, result, manifest, wire, decoded, edits, conn, ttl, now, svc, call, hub_name, hub_key, given_token, twin, patch, manager, method, sent, replies, returned>>

\* execute takes the query by value
Query_execute ==
    /\ query.some
    /\ CanSend
    /\ Exchange("execute", execute(query.val))
    /\ query' = None
    /\ UNCHANGED <<mb, mres, builder, adds, result, manifest, wire, decoded, edits, conn, ttl, now, svc, call, hub_name, hub_key, given_token, twin, patch, manager, method, query_builder, replies>>

IoTHubService_apply_modules_configuration ==
    /\ HasService
    /\ manifest.some
    /\ CanSend
    /\ \E device_id \in DeviceIds :
          Exchange("apply_modules_configuration", apply_modules_configuration(Service, device_id, manifest.val))
    /\ UNCHANGED <<mb, mres, builder, adds, result, manifest, wire, decoded, edits, conn, ttl, now, svc, call, hub_name, hub_key, given_token, twin, patch, manager, method, query_builder, query, replies>>

----------------------------------------------------------------------------
(* SpecFacade: one of the three constructors, then any operations of the
   facade and its handles while the clock advances *)

InitFacade ==
    /\ mb = EdgeModuleBuilderNew
    /\ mres = None
    /\ \E b \in CompleteBuilders :
          /\ b.logging_options = None
          /\ b.registry_credentials = EmptyMap
          /\ b.routes = EmptyMap
          /\ b.modules = EmptyMap
          /\ builder = b
          /\ result = Some(ModulesContentBuilderBuild(b))
          /\ manifest = Some(ModulesContentBuilderBuild(b).val)
    /\ adds = <<>>
    /\ wire = None
    /\ decoded = None
    /\ edits = 0
    /\ conn = Join(<<HostNameField(<<"h", "u", "b", "2">>),
                     SharedAccessKeyNameField(<<"s", "e", "r", "v", "i", "c", "e">>),
                     SharedAccessKeyField(<<"Y", "W", "J", "j">>)>>)
    /\ ttl = 60
    /\ now = 1600000000
    /\ svc = None
    /\ call = None
    /\ replies = [i \in 1..MaxRequests |-> Response(200, Ok(Text(JObj(EmptyMap))))]
    /\ returned = <<>>
    /\ hub_name = <<"c", "o", "o", "l", "-", "i", "o", "t", "-", "h", "u", "b">>
    /\ hub_key = <<"Y", "Q", "=", "=">>
    /\ given_token = <<"s", "a", "s", "_", "t", "o", "k", "e", "n">>
    /\ twin = None
    /\ patch = None
    /\ manager = None
    /\ method = None
    /\ query_builder = None
    /\ query = None
    /\ sent = <<>>

NextFacade ==
    \/ IoTHubService_from_sas_token
    \/ IoTHubService_from_private_key
    \/ IoTHubService_from_connection_string
    \/ Tick
    \/ IoTHubService_twin_manager
    \/ TwinManager_get_device_twin
    \/ TwinManager_get_module_twin
    \/ TwinManager_update_device_twin
    \/ TwinManager_update_module_twin
    \/ TwinManager_replace_device_twin
    \/ TwinManager_replace_module_twin
    \/ IoTHubService_create_device_method
    \/ IoTHubService_create_module_method
    \/ DirectMethod_invoke
    \/ IoTHubService_build_query
    \/ QueryBuilder_select
    \/ QueryBuilder_from
    \/ QueryBuilder_build
    \/ Query_execute
    \/ IoTHubService_apply_modules_configuration

SpecFacade == InitFacade /\ [][NextFacade]_vars

\* C19: the credential is fixed at construction and never refreshed: whatever
\* the operation and however far the clock has advanced, iothub_name and
\* sas_token stay as they are, and every request issued carries Authorization
\* equal to the stored sas_token (for from_sas_token the given text as it is)
\* and Content-Type: application/json.
C19_CredentialFixed ==
    [][/\ (~svc.some /\ svc'.some /\ ~call'.some) =>
              svc'.val = Ok([iothub_name |-> hub_name, sas_token |-> given_token])
       /\ HasService =>
              /\ svc' = svc
              /\ sent' # sent =>
                    /\ Len(sent') = Len(sent) + 1
                    /\ SubSeq(sent', 1, Len(sent)) = sent
                    /\ sent'[Len(sent')].headers =
                           ("Authorization" :> Service.sas_token)
                           @@ ("Content-Type" :> "application/json")]_vars

\* two requests were sent with the signed token of a service built at the
\* first instant, the later one after the token had expired
C19_Witness ==
    /\ HasService
    /\ call.some
    /\ Len(sent) = 2
    /\ ParseInt(percent_decode(PairValue(4))) < now
    /\ sent[1].headers["Authorization"] = Service.sas_token
    /\ sent[2].headers["Authorization"] = Service.sas_token


\* the requests of DirectMethod::invoke among those sent: the only bodies
\* with a methodName
IsInvokeRequest(request) ==
    /\ request.body.some
    /\ "methodName" \in DOMAIN request.body.val.text_of.v

\* C22: a direct method made by create_device_method or create_module_method
\* with response_time_out = 20 and connect_time_out = 10 is invoked with a
\* body whose connectTimeoutInSeconds is 10 and whose responseTimeoutInSeconds
\* is 20, methodName and payload being the method name and the payload given.
C22_TimeoutsAsGiven ==
    \A i \in 1..Len(sent) :
        IsInvokeRequest(sent[i]) =>
            LET body == sent[i].body.val.text_of.v
            IN /\ DOMAIN body = {"connectTimeoutInSeconds", "methodName", "payload",
                                 "responseTimeoutInSeconds"}
               /\ body["connectTimeoutInSeconds"] = JNum(10)
               /\ body["responseTimeoutInSeconds"] = JNum(20)
               /\ body["methodName"] \in {JStr(method_name) : method_name \in MethodNames}
               /\ body["payload"] \in Payloads


----------------------------------------------------------------------------
(* SpecQuery: the query builder of a service, its four setters called in any
   order and any number of times, then build *)

WhereQueries == {<<"w">>, <<"x", " ", "=", "=", " ", "s", "o", "m", "e", "t", "h", "i", "n", "g">>, <<"a">>}
GroupByQueries == {<<"g">>, <<"s", "o", "m", "e", "t", "h", "i", "n", "g">>, <<"b">>}

QueryBuilder_and_where ==
    /\ query_builder.some
    /\ \E where_query \in WhereQueries :
          query_builder' = Some([query_builder.val EXCEPT !.and_where = Some(where_query)])
    /\ UNCHANGED <<mb, mres, builder, adds, result, manifest, wire, decoded, edits, conn, ttl, now, svc, call, hub_name, hub_key, given_token, twin, patch, manager, method, query, sent, replies, returned>>

QueryBuilder_group_by ==
    /\ query_builder.some
    /\ \E group_by_query \in GroupByQueries :
          query_builder' = Some([query_builder.val EXCEPT !.group_by = Some(group_by_query)])
    /\ UNCHANGED <<mb, mres, builder, adds, result, manifest, wire, decoded, edits, conn, ttl, now, svc, call, hub_name, hub_key, given_token, twin, patch, manager, method, query, sent, replies, returned>>

InitQuery ==
    /\ mb = EdgeModuleBuilderNew
    /\ mres = None
    /\ builder = ModulesContentBuilderNew
    /\ adds = <<>>
    /\ result = None
    /\ manifest = None
    /\ wire = None
    /\ decoded = None
    /\ edits = 0
    /\ conn = IdleConn
    /\ ttl = 0
    /\ now = 0
    /\ svc = Some(Ok([iothub_name |-> <<"t", "e", "s", "t">>, sas_token |-> <<"t", "e", "s", "t">>]))
    /\ call = None
    /\ replies = <<>>
    /\ returned = <<>>
    /\ hub_name = IdleConn
    /\ hub_key = IdleConn
    /\ given_token = IdleConn
    /\ twin = None
    /\ patch = None
    /\ manager = None
    /\ method = None
    /\ query_builder = None
    /\ query = None
    /\ sent = <<>>

NextQuery ==
    \/ IoTHubService_build_query
    \/ QueryBuilder_select
    \/ QueryBuilder_from
    \/ QueryBuilder_and_where
    \/ QueryBuilder_group_by
    \/ QueryBuilder_build

SpecQuery == InitQuery /\ [][NextQuery]_vars

\* the clause of a keyword: the keyword, one space and the fragment, when the
\* setter was called
Clause(keyword, fragment) ==
    IF fragment.some THEN <<keyword \o <<" ">> \o fragment.val>> ELSE <<>>

\* the clauses of a builder in the order SELECT, FROM, WHERE, GROUP BY
Clauses(b) ==
    Clause(<<"S", "E", "L", "E", "C", "T">>, b.select) \o Clause(<<"F", "R", "O", "M">>, b.from)
    \o Clause(<<"W", "H", "E", "R", "E">>, b.and_where) \o Clause(<<"G", "R", "O", "U", "P", " ", "B", "Y">>, b.group_by)

RECURSIVE JoinSpace(_)
JoinSpace(clauses) ==
    IF clauses = <<>> THEN <<>>
    ELSE IF Len(clauses) = 1 THEN clauses[1]
    ELSE clauses[1] \o <<" ">> \o JoinSpace(Tail(clauses))

\* C23: build emits the clauses in the order SELECT, FROM, WHERE, GROUP BY,
\* each present exactly when its setter was called, whatever the order of the
\* setter calls, with single spaces between clauses: after the text that
\* precedes the first clause (nothing when select was set, at most one
\* character otherwise) the query is the clauses joined by single spaces; with
\* select "*" and from "devices" it is exactly "SELECT * FROM devices", and
\* with all four set it is "SELECT s FROM f WHERE w GROUP BY g".
C23_ClausesInOrder ==
    [][(query_builder.some /\ query'.some) =>
           LET b == query_builder.val
               q == query'.val.query
           IN /\ \E lead \in {<<>>, <<" ">>} : q = lead \o JoinSpace(Clauses(b))
              /\ b.select.some => q = JoinSpace(Clauses(b))
              /\ (b.select = Some(<<"*">>) /\ b.from = Some(<<"d", "e", "v", "i", "c", "e", "s">>)
                  /\ ~b.and_where.some /\ ~b.group_by.some)
                 => q = <<"S", "E", "L", "E", "C", "T", " ", "*", " ", "F", "R", "O", "M", " ", "d", "e", "v", "i", "c", "e", "s">>
              /\ (b.select.some /\ b.from.some /\ b.and_where.some /\ b.group_by.some)
                 => q = <<"S", "E", "L", "E", "C", "T", " ">> \o b.select.val \o <<" ", "F", "R", "O", "M", " ">> \o b.from.val
                        \o <<" ", "W", "H", "E", "R", "E", " ">> \o b.and_where.val
                        \o <<" ", "G", "R", "O", "U", "P", " ", "B", "Y", " ">> \o b.group_by.val]_vars

\* a query was built from a builder with all four clauses set
C23_Witness ==
    /\ query.some
    /\ query.val.query = <<"S", "E", "L", "E", "C", "T", " ", "*", " ", "F", "R", "O", "M", " ", "d", "e", "v", "i", "c", "e", "s", " ", "W", "H", "E", "R", "E", " ", "x", " ", "=", "=", " ", "s", "o", "m", "e", "t", "h", "i", "n", "g", " ", "G", "R", "O", "U", "P", " ", "B", "Y", " ", "s", "o", "m", "e", "t", "h", "i", "n", "g">>


\* C30: whatever clauses were set on the builder, select set or not, from
\* fragments without leading or trailing whitespace, the query text that build
\* produces neither starts nor ends with a space.
C30_NoOuterWhitespace ==
    (query.some /\ query.val.query # <<>>) =>
        /\ query.val.query[1] # " "
        /\ query.val.query[Len(query.val.query)] # " "


----------------------------------------------------------------------------
(* SpecError: an error body, put together from at most MaxMembers members of
   a pool, is deserialized as IoTHubError or as DirectMethodError *)

\* most members of an error body
MaxMembers == 3

\* the embedded message of the test iothuberror_should_deserialize
ErrorMessageDoc ==
    JObj(Field("errorCode", JNum(12345))
         @@ Field("trackingId", JStr("trackingid"))
         @@ Field("message", JStr("an error occurred"))
         @@ Field("info", JObj(EmptyMap))
         @@ Field("timestampUtc", JStr("2020-06-21T16:38:35.671+00:00")))

\* the members an error body is put together from: the Message of the test,
\* Messages without errorCode, without info, with a string for errorCode, with
\* a text that is no JSON, and with an object where the string should be; two
\* ExceptionMessages and a member of another name
MemberPool ==
    <<Member("Message", JStr(Text(ErrorMessageDoc))),
      Member("Message", JStr(Text(JObj(MapRemove(ErrorMessageDoc.v, "errorCode"))))),
      Member("Message", JStr(Text(JObj(MapRemove(ErrorMessageDoc.v, "info"))))),
      Member("Message", JStr(Text(JObj(MapInsert(ErrorMessageDoc.v, "errorCode", JStr("12345")))))),
      Member("Message", JStr(Raw("an error occurred"))),
      Member("Message", ErrorMessageDoc),
      Member("ExceptionMessage", JStr(Raw("a great exception"))),
      Member("ExceptionMessage", JNum(500)),
      Member("TrackingId", JStr(Raw("trackingid")))>>

from_str_IoTHubError ==
    /\ wire.some
    /\ ~decoded.some
    /\ decoded' = Some([type |-> "IoTHubError", value |-> DeIoTHubError(wire.val)])
    /\ UNCHANGED <<mb, mres, builder, adds, result, manifest, wire, edits, conn, ttl, now, svc, call, hub_name, hub_key, given_token, twin, patch, manager, method, query_builder, query, sent, replies, returned>>

from_str_DirectMethodError ==
    /\ wire.some
    /\ ~decoded.some
    /\ decoded' = Some([type |-> "DirectMethodError", value |-> DeDirectMethodError(wire.val)])
    /\ UNCHANGED <<mb, mres, builder, adds, result, manifest, wire, edits, conn, ttl, now, svc, call, hub_name, hub_key, given_token, twin, patch, manager, method, query_builder, query, sent, replies, returned>>

InitError ==
    /\ mb = EdgeModuleBuilderNew
    /\ mres = None
    /\ builder = ModulesContentBuilderNew
    /\ adds = <<>>
    /\ result = None
    /\ manifest = None
    /\ \/ \E n \in 0..MaxMembers : \E choice \in [1..n -> DOMAIN MemberPool] :
              wire = Some(ObjectText([k \in 1..n |-> MemberPool[choice[k]]]))
       \/ wire = Some(Raw("Bad Gateway"))
       \/ wire = Some(Text(JStr("error")))
    /\ decoded = None
    /\ edits = 0
    /\ conn = IdleConn
    /\ ttl = 0
    /\ now = 0
    /\ svc = None
    /\ call = None
    /\ replies = <<>>
    /\ returned = <<>>
    /\ hub_name = IdleConn
    /\ hub_key = IdleConn
    /\ given_token = IdleConn
    /\ twin = None
    /\ patch = None
    /\ manager = None
    /\ method = None
    /\ query_builder = None
    /\ query = None
    /\ sent = <<>>

NextError ==
    \/ from_str_IoTHubError
    \/ from_str_DirectMethodError

SpecError == InitError /\ [][NextError]_vars


\* the members of the error body, none when it is not the text of an object
WireMembers == IF "members_of" \in DOMAIN wire.val THEN wire.val.members_of ELSE <<>>

\* the places of the members of a name
MembersNamed(key) == {i \in DOMAIN WireMembers : WireMembers[i].key = key}

\* a Message value that is a string holding the text of a JSON object with
\* the five fields
IsStringifiedMessage(value) ==
    /\ value.t = "str"
    /\ "text_of" \in DOMAIN value.v
    /\ value.v.text_of.t = "obj"
    /\ {"errorCode", "trackingId", "message", "info", "timestampUtc"}
           \subseteq DOMAIN value.v.text_of.v

\* C28: deserializing a service error goes in two phases: an IoTHubError or
\* DirectMethodError comes out only when the body has exactly one Message and
\* exactly one ExceptionMessage and the Message string is itself the text of
\* a JSON object with errorCode, trackingId, message, info and timestampUtc,
\* and it then holds these values; a missing member, a member written twice
\* and a Message that is no stringified JSON each give a deserialization
\* error.
C28_TwoPhaseError ==
    decoded.some =>
        LET r == decoded.val.value
            wellformed ==
                /\ "members_of" \in DOMAIN wire.val
                /\ Cardinality(MembersNamed("Message")) = 1
                /\ Cardinality(MembersNamed("ExceptionMessage")) = 1
                /\ \A i \in MembersNamed("Message") : IsStringifiedMessage(WireMembers[i].value)
        IN /\ r.ok =>
                /\ wellformed
                /\ \A i \in MembersNamed("Message") :
                      LET doc == WireMembers[i].value.v.text_of.v
                      IN /\ r.val.message.error_code = doc["errorCode"].v
                         /\ r.val.message.tracking_id = doc["trackingId"].v
                         /\ r.val.message.message = doc["message"].v
                         /\ r.val.message.info = doc["info"]
                         /\ r.val.message.timestamp_utc = doc["timestampUtc"].v
                /\ \A i \in MembersNamed("ExceptionMessage") :
                      r.val.exception_message = WireMembers[i].value.v
           /\ ~wellformed => (~r.ok /\ "err" \in DOMAIN r)

\* the body of the test, ExceptionMessage written first, was deserialized as
\* a DirectMethodError
C28_Witness ==
    /\ decoded.some
    /\ decoded.val.type = "DirectMethodError"
    /\ decoded.val.value.ok
    /\ Len(WireMembers) = 2
    /\ WireMembers[1].key = "ExceptionMessage"
    /\ decoded.val.value.val.message.error_code = 12345
    /\ decoded.val.value.val.exception_message = Raw("a great exception")


----------------------------------------------------------------------------
(* SpecExchange: a manifest builder that is complete or not, the three
   constructors (from_sas_token, from_private_key on a key that is no base64,
   from_connection_string on a string of two fields), and one operation with
   the reply of the service to its request, drawn from the pool of replies *)

DeviceTwinDoc ==
    JObj(Field("authenticationType", JStr("sas"))
         @@ Field("capabilities", JObj(Field("iotEdge", JBool(TRUE))))
         @@ Field("cloudToDeviceMessageCount", JNum(0))
         @@ Field("connectionState", JStr("Connected"))
         @@ Field("deviceEtag", JStr("MQ=="))
         @@ Field("deviceId", JStr("SomeDevice"))
         @@ Field("deviceScope", JNull)
         @@ Field("etag", JStr("AAAAAAAAAAE="))
         @@ Field("lastActivityTime", JStr("2020-06-21T16:38:35.671+00:00"))
         @@ Field("properties", JObj(Field("desired", JObj(EmptyMap))
                                     @@ Field("reported", JObj(EmptyMap))))
         @@ Field("status", JStr("enabled"))
         @@ Field("statusUpdateTime", JStr("0001-01-01T00:00:00Z"))
         @@ Field("tags", JObj(EmptyMap))
         @@ Field("version", JNum(2))
         @@ Field("x509Thumbprint", JObj(EmptyMap)))

ModuleTwinDoc ==
    JObj(Field("authenticationType", JStr("sas"))
         @@ Field("cloudToDeviceMessageCount", JNum(0))
         @@ Field("connectionState", JStr("Disconnected"))
         @@ Field("deviceEtag", JStr("MQ=="))
         @@ Field("deviceId", JStr("SomeDevice"))
         @@ Field("etag", JStr("AAAAAAAAAAE="))
         @@ Field("lastActivityTime", JStr("0001-01-01T00:00:00Z"))
         @@ Field("moduleId", JStr("SomeModule"))
         @@ Field("properties", JObj(Field("desired", JObj(EmptyMap))
                                     @@ Field("reported", JObj(EmptyMap))))
         @@ Field("status", JStr("enabled"))
         @@ Field("statusUpdateTime", JStr("0001-01-01T00:00:00Z"))
         @@ Field("version", JNum(2))
         @@ Field("x509Thumbprint", JObj(EmptyMap)))

MethodResponseDoc == JObj(Field("status", JNum(200)) @@ Field("payload", JObj(EmptyMap)))

\* the error body of the service as IoTHubError and DirectMethodError read it,
\* and as TwinError reads it
ErrorBody ==
    ObjectText(<<Member("Message", JStr(Text(ErrorMessageDoc))),
                 Member("ExceptionMessage", JStr(Raw("a great exception")))>>)
TwinErrorBody ==
    ObjectText(<<Member("Message", JStr(Raw("ErrorCode:DeviceNotFound"))),
                 Member("ExceptionMessage", JStr(Raw("a great exception"))),
                 Member("TrackingId", JStr(Raw("trackingid")))>>)

\* the bodies a response can carry; the last is a body that cannot be read
\* to its end
BodyPool ==
    <<Ok(Text(DeviceTwinDoc)), Ok(Text(ModuleTwinDoc)), Ok(Text(MethodResponseDoc)),
      Ok(ErrorBody), Ok(TwinErrorBody), Ok(Raw("")), Ok(NotUtf8), Err(Hyper)>>

\* the replies of the service: every body with 200 and with 404, an empty
\* 204, and the failure of the request itself
ReplyPool ==
    [i \in DOMAIN BodyPool |-> Response(200, BodyPool[i])]
    \o [i \in DOMAIN BodyPool |-> Response(404, BodyPool[i])]
    \o <<Response(204, Ok(Raw(""))), Err(Hyper)>>

InitExchange ==
    /\ mb = EdgeModuleBuilderNew
    /\ mres = None
    /\ \/ builder = ModulesContentBuilderNew
       \/ \E b \in CompleteBuilders :
             /\ b.logging_options = None
             /\ b.registry_credentials = EmptyMap
             /\ b.routes = EmptyMap
             /\ b.modules = EmptyMap
             /\ builder = b
    /\ adds = <<>>
    /\ result = None
    /\ manifest = None
    /\ wire = None
    /\ decoded = None
    /\ edits = 0
    /\ conn = Join(<<HostNameField(<<"h", "u", "b", "2">>), SharedAccessKeyField(<<"Y", "W", "J", "j">>)>>)
    /\ ttl = 60
    /\ now = 1600000000
    /\ svc = None
    /\ call = None
    /\ hub_name = <<"c", "o", "o", "l", "-", "i", "o", "t", "-", "h", "u", "b">>
    /\ hub_key = <<"a", "!", "b">>
    /\ given_token = <<"s", "a", "s", "_", "t", "o", "k", "e", "n">>
    /\ twin = None
    /\ patch = None
    /\ manager = None
    /\ method = None
    /\ query_builder = None
    /\ query = None
    /\ sent = <<>>
    /\ \E r \in DOMAIN ReplyPool : replies = <<ReplyPool[r]>>
    /\ returned = <<>>

NextExchange ==
    \/ IoTHubService_from_sas_token
    \/ IoTHubService_from_private_key
    \/ IoTHubService_from_connection_string
    \/ ModulesContentBuilder_build
    \/ IoTHubService_twin_manager
    \/ TwinManager_get_device_twin
    \/ TwinManager_get_module_twin
    \/ TwinManager_update_device_twin
    \/ TwinManager_update_module_twin
    \/ TwinManager_replace_device_twin
    \/ TwinManager_replace_module_twin
    \/ IoTHubService_create_device_method
    \/ IoTHubService_create_module_method
    \/ DirectMethod_invoke
    \/ IoTHubService_build_query
    \/ QueryBuilder_select
    \/ QueryBuilder_from
    \/ QueryBuilder_build
    \/ Query_execute
    \/ IoTHubService_apply_modules_configuration

SpecExchange == InitExchange /\ [][NextExchange]_vars


\* the requests that were answered with a response
Answered == {i \in DOMAIN returned : returned[i].outcome.some /\ replies[i].ok}

\* C21: every operation of the facade reports a response whose status is not
\* 2xx to its caller as an error: invoke, get_device_twin, get_module_twin,
\* update and replace of a twin, Query::execute and
\* apply_modules_configuration never return a success value on such a
\* response, and none is silently discarded.
C21_NonSuccessIsError ==
    \A i \in Answered :
        ~is_success(replies[i].val.status) =>
            /\ ~returned[i].outcome.val.ok
            /\ "err" \in DOMAIN returned[i].outcome.val

\* the type an operation reads the body of a 2xx response as
SuccessType(op) ==
    CASE op \in {"get_device_twin", "update_device_twin", "replace_device_twin"} -> "DeviceTwin"
      [] op \in {"get_module_twin", "update_module_twin", "replace_module_twin"} -> "ModuleTwin"
      [] op = "invoke" -> "DirectMethodResponse"
      [] OTHER -> "Value"

\* C24: when the body of a 2xx response does not match the success schema of
\* the operation, the operation returns a response-parsing error of its own
\* kind (neither the service error nor a transport error) that carries the
\* body as it was received and the deserialization error that was the cause.
C24_ParsingErrorCarriesBody ==
    \A i \in Answered :
        (/\ is_success(replies[i].val.status)
         /\ replies[i].val.body.ok
         /\ returned[i].op # "apply_modules_configuration"
         /\ ~from_reader(SuccessType(returned[i].op), replies[i].val.body.val).ok) =>
            LET r == returned[i].outcome.val
            IN /\ ~r.ok
               /\ "err" \in DOMAIN r
               /\ r.err.type = "ParsingError"
               /\ r.err.received_payload = replies[i].val.body.val
               /\ r.err.serialization_error =
                      from_reader(SuccessType(returned[i].op), replies[i].val.body.val).err

\* C25: fail fast: no request is issued on behalf of a builder or a
\* credential construction that failed: a constructor that returned an error,
\* or was given a key that is no base64, leaves nothing to send a request
\* from; a request of apply_modules_configuration carries the manifest of a
\* build that succeeded; a request that updates or replaces a twin carries
\* a patch that DesiredTwinBuilder built.
C25_FailFast ==
    /\ (svc.some /\ ~svc.val.ok) => sent = <<>>
    /\ (svc.some /\ call.some /\ ~decode(call.val.private_key).ok) => sent = <<>>
    /\ ~svc.some => sent = <<>>
    /\ \A i \in DOMAIN sent :
          /\ returned[i].op = "apply_modules_configuration" =>
                /\ result.some
                /\ result.val.ok
                /\ sent[i].body =
                       Some(Text(JObj(Field("modulesContent", SerModulesContent(result.val.val)))))
          /\ returned[i].op \in {"update_device_twin", "update_module_twin",
                                "replace_device_twin", "replace_module_twin"} =>
                \E desired_properties \in DesiredProperties :
                    sent[i].body =
                        Some(Text(DesiredTwinBuilderBuild(
                                      properties(DesiredTwinBuilderNew, desired_properties)).contents))

\* the manifest build and a constructor had failed, and a request that needs
\* neither was sent from a service made from a token
C25_Witness ==
    /\ result.some
    /\ ~result.val.ok
    /\ ~manifest.some
    /\ HasService
    /\ Len(sent) = 1
    /\ returned[1].op = "replace_device_twin"

\* C26: each call of an operation of the facade issues exactly one request
\* and then ends with one result, a value or an error, whatever the reply
\* (2xx, not 2xx, a body that cannot be parsed, a failure of the transport);
\* no step sends a second request.
C26_OneRequestOneResult ==
    [][(sent' # sent \/ returned' # returned) =>
           /\ Len(sent') = Len(sent) + 1
           /\ SubSeq(sent', 1, Len(sent)) = sent
           /\ Len(returned') = Len(returned) + 1
           /\ SubSeq(returned', 1, Len(returned)) = returned
           /\ returned'[Len(returned')].outcome.some
           /\ DOMAIN returned'[Len(returned')].outcome.val \in {{"ok", "val"}, {"ok", "err"}}]_vars


----------------------------------------------------------------------------
(* SpecConcurrent: several operations started from one service run
   concurrently.  Each is a future that is suspended at
   client.request(request).await: it sends its request in one step and
   returns in a later one, and the steps of different operations interleave
   in every order. *)

\* the operations that are started, each with the request it sends when it
\* runs alone
ConcurrentCalls(service) ==
    <<[op |-> "get_device_twin",
       request |-> get_device_twin(TwinManagerNew(service), "SomeDevice")],
      [op |-> "update_module_twin",
       request |-> update_module_twin(TwinManagerNew(service), "SomeDevice", "SomeModule",
                       DesiredTwinBuilderBuild(properties(DesiredTwinBuilderNew, JObj(EmptyMap))))],
      [op |-> "invoke",
       request |-> invoke(create_device_method(service, "SomeDevice", "GreatMethod", 20, 10),
                          JObj(EmptyMap))],
      [op |-> "execute",
       request |-> execute(QueryBuilderBuild([QueryBuilderNew(service) EXCEPT
                                                  !.select = Some(<<"*">>),
                                                  !.from = Some(<<"d", "e", "v", "i", "c", "e", "s">>)]))],
      [op |-> "apply_modules_configuration",
       request |-> apply_modules_configuration(service, "SomeDevice", manifest.val)]>>

\* an operation is started and runs up to its await: the request is sent
Operation_send ==
    /\ HasService
    /\ CanSend
    /\ \E k \in DOMAIN ConcurrentCalls(Service) :
          /\ sent' = Append(sent, ConcurrentCalls(Service)[k].request)
          /\ returned' = Append(returned, [op |-> ConcurrentCalls(Service)[k].op,
                                          outcome |-> None])
    /\ UNCHANGED <<mb, mres, builder, adds, result, manifest, wire, decoded, edits, conn, ttl, now, svc, call, hub_name, hub_key, given_token, twin, patch, manager, method, query_builder, query, replies>>

\* the reply to a request arrives and the operation that awaits it returns
Operation_receive ==
    /\ \E i \in DOMAIN returned :
          /\ ~returned[i].outcome.some
          /\ returned' = Complete(returned, replies, i)
    /\ UNCHANGED <<mb, mres, builder, adds, result, manifest, wire, decoded, edits, conn, ttl, now, svc, call, hub_name, hub_key, given_token, twin, patch, manager, method, query_builder, query, sent, replies>>

InitConcurrent ==
    /\ mb = EdgeModuleBuilderNew
    /\ mres = None
    /\ \E b \in CompleteBuilders :
          /\ b.logging_options = None
          /\ b.registry_credentials = EmptyMap
          /\ b.routes = EmptyMap
          /\ b.modules = EmptyMap
          /\ builder = b
          /\ result = Some(ModulesContentBuilderBuild(b))
          /\ manifest = Some(ModulesContentBuilderBuild(b).val)
    /\ adds = <<>>
    /\ wire = None
    /\ decoded = None
    /\ edits = 0
    /\ conn = IdleConn
    /\ ttl = 0
    /\ now = 0
    /\ svc = Some(Ok(from_sas_token(<<"c", "o", "o", "l", "-", "i", "o", "t", "-", "h", "u", "b">>, <<"s", "a", "s", "_", "t", "o", "k", "e", "n">>)))
    /\ call = None
    /\ hub_name = <<"c", "o", "o", "l", "-", "i", "o", "t", "-", "h", "u", "b">>
    /\ hub_key = IdleConn
    /\ given_token = <<"s", "a", "s", "_", "t", "o", "k", "e", "n">>
    /\ twin = None
    /\ patch = None
    /\ manager = None
    /\ method = None
    /\ query_builder = None
    /\ query = None
    /\ sent = <<>>
    /\ \E choice \in [1..MaxRequests -> {1, 3, 12, 18}] :
          replies = [i \in 1..MaxRequests |-> ReplyPool[choice[i]]]
    /\ returned = <<>>

NextConcurrent ==
    \/ Operation_send
    \/ Operation_receive

SpecConcurrent == InitConcurrent /\ [][NextConcurrent]_vars

====
